---- MODULE Spec2Model ----
(***************************************************************************)
(* yt-cipher: the resolver pipeline (player store, in-memory caches,       *)
(* solver registry) and the request handlers built on it.                  *)
(*                                                                         *)
(* Spec          the concurrent pipeline: decrypt and get_sts requests     *)
(*               interleave at every await of getPlayerFilePath,           *)
(*               getSolvers and handleGetSts.                              *)
(* SpecHandlers  the handlers as functions of the request body and of what *)
(*               getSolvers gave them (decrypt, resolve, batch), and       *)
(*               clear_cache against populated caches.                     *)
(***************************************************************************)
EXTENDS Integers, Sequences, FiniteSets, TLC

VARIABLES
    fs,                 \* player store: url -> "absent" | "partial" | "full"
    solverCache,        \* url -> Solvers object | NoEntry
    preprocessedCache,  \* url -> preprocessed script | None
    stsCache,           \* url -> sts string | None
    pc,                 \* request -> position in its handler
    req,                \* request -> [kind, url]
    raw,                \* request -> script text its readTextFile returned
    resp,               \* request -> response (NoResp while running)
    got,                \* request -> id of the Solvers object getSolvers gave it
    steps,              \* request -> the steps it ran itself (fetch, exec, extract)
    failedAt,           \* request -> the step of its own that failed ("none")
    cold,               \* request -> it arrived while neither cache held its url
    concurrentWith,     \* request -> the requests in flight when it arrived
    nextId,             \* identity of the next Solvers object
    hreq,               \* SpecHandlers: the request under test
    hresp,              \* SpecHandlers: its response (NoResp before it runs)
    now,                \* Date.now() (SpecCache, SpecRate)
    lru,                \* InstrumentedLRU: the keys the base LRU holds, least recent first
    entries,            \* InstrumentedLRU.entries: key -> timestamp | NoTime
    hits,               \* InstrumentedLRU.hits
    misses,             \* InstrumentedLRU.misses
    gets,               \* get calls made on the cache so far
    getsSinceClear,     \* get calls made since the last clear()
    lastOp,             \* the last cache operation and what it returned
    recent,             \* keys set or hit by a get, least recent first
    store,              \* RateLimitStore.store: key -> { count, resetTime } | NoBucket
    reached,            \* key -> requests that reached the handler in the bucket's window
    lastReq,            \* the last request through withRateLimit and its answer
    realTimeData        \* server.ts: activeConnections, totalRequests, errorCount

pipeVars == <<fs, solverCache, preprocessedCache, stsCache, pc, req, raw, resp,
              got, steps, failedAt, cold, concurrentWith, nextId>>
handlerVars == <<hreq, hresp>>
cacheVars == <<lru, entries, hits, misses, gets, getsSinceClear, lastOp, recent>>
rateVars == <<store, reached, lastReq>>
libVars == <<now, cacheVars, rateVars, realTimeData>>
vars == <<pipeVars, handlerVars, libVars>>

----------------------------------------------------------------------------
(* Bounds *)

NumRequests == 2        \* concurrent / successive requests in Spec
MaxBatch == 2           \* longest signatures array in SpecHandlers
MaxQuery == 2           \* longest stream_url query in SpecHandlers

Requests == 1..NumRequests

----------------------------------------------------------------------------
(* Values *)

Absent == "<absent>"        \* a JSON field that is not there (undefined / null)
None == "<none>"            \* a cache miss (undefined)
Truthy(v) == v # Absent /\ v # ""

\* Player URLs (already normalized); the fingerprint is injective on them.
UrlGood == "/s/player/good.js"
UrlNoSig == "/s/player/nosig.js"
Urls == {UrlGood, UrlNoSig}

\* A token a solver throws on.
BadToken == "X"

\* What the extracted callables do: a solver is "none" (null), or "fn".
SigApply(x) == "sig(" \o x \o ")"
NApply(x) == "n(" \o x \o ")"
Throws(x) == x = BadToken

\* Solvers { sig, n } with the identity of the object (0: getSolvers returned null).
Solvers(i, s, n) == [id |-> i, sig |-> s, n |-> n]
NullSolvers == Solvers(0, "none", "none")
NoId == 0 - 1            \* nothing returned (still running, or it threw)
NoEntry == Solvers(NoId, "none", "none")    \* cache.get gave undefined

----------------------------------------------------------------------------
(* URLSearchParams over a list of <<key, value>> pairs *)

RECURSIVE SelectPairs(_, _)
SelectPairs(q, k) ==    \* the pairs of q whose key is not k
    IF q = <<>> THEN <<>>
    ELSE IF Head(q)[1] = k THEN SelectPairs(Tail(q), k)
    ELSE <<Head(q)>> \o SelectPairs(Tail(q), k)

HasParam(q, k) == \E i \in 1..Len(q) : q[i][1] = k

FirstIndex(q, k) == CHOOSE i \in 1..Len(q) : q[i][1] = k /\ \A j \in 1..(i-1) : q[j][1] # k

\* searchParams.get(k): the first value, or null
ParamGet(q, k) == IF HasParam(q, k) THEN q[FirstIndex(q, k)][2] ELSE Absent

\* searchParams.delete(k): removes every pair named k
ParamDelete(q, k) == SelectPairs(q, k)

\* searchParams.set(k, v): the first pair named k gets v and the others go;
\* appended when there is none
ParamSet(q, k, v) ==
    IF HasParam(q, k)
    THEN LET i == FirstIndex(q, k)
         IN  SubSeq(q, 1, i-1) \o <<<<k, v>>>> \o SelectPairs(SubSeq(q, i+1, Len(q)), k)
    ELSE Append(q, <<k, v>>)

----------------------------------------------------------------------------
(* Responses *)

\* status: the HTTP status; success: the body says success: true; code: the
\* error code of an error body ("OK" otherwise); body: the endpoint's own keys
Response(status, success, code, body) ==
    [status |-> status, success |-> success, code |-> code, body |-> body]
ErrorResponse(status, code) == Response(status, FALSE, code, [error |-> code])
NoResp == Response(0, FALSE, "<running>", [error |-> "<running>"])

----------------------------------------------------------------------------
(* What getSolvers gave its caller: a Solvers object, null, or an exception *)

Returned(solvers) == [threw |-> FALSE, solvers |-> solvers]
Threw == [threw |-> TRUE, solvers |-> NullSolvers]

----------------------------------------------------------------------------
(* handleDecryptSignature *)

\* (mutant) the solver is applied whenever the input is there
DecryptedSignatureUnguarded(body, solvers) ==
    IF Truthy(body.encrypted_signature) THEN SigApply(body.encrypted_signature) ELSE ""

\* decryptSignature.ts:62-72: '' unless input and solver are there and it returns
DecryptedSignature(body, solvers) ==
    IF Truthy(body.encrypted_signature) /\ solvers.sig # "none"
    THEN IF Throws(body.encrypted_signature) THEN ""
         ELSE SigApply(body.encrypted_signature)
    ELSE ""

\* decryptSignature.ts:74-84
DecryptedNSig(body, solvers) ==
    IF Truthy(body.n_param) /\ solvers.n # "none"
    THEN IF Throws(body.n_param) THEN "" ELSE NApply(body.n_param)
    ELSE ""

handleDecryptSignature(body, outcome) ==
    IF ~Truthy(body.player_url) THEN ErrorResponse(400, "MISSING_PLAYER_URL")
    ELSE IF outcome.threw THEN ErrorResponse(500, "DECRYPTION_ERROR")
    ELSE IF outcome.solvers.id = 0 THEN ErrorResponse(500, "SOLVER_GENERATION_FAILED")
    ELSE Response(200, TRUE, "OK",
            [decrypted_signature |-> DecryptedSignature(body, outcome.solvers),
             decrypted_n_sig |-> DecryptedNSig(body, outcome.solvers)])

----------------------------------------------------------------------------
(* handleResolveUrl *)

\* (mutant) signature_key is ignored
SigKeyDefault(body) == "sig"

\* resolveUrl.ts:90
SigKey(body) == IF Truthy(body.signature_key) THEN body.signature_key ELSE "sig"

\* resolveUrl.ts:88-98: set signature_key, then delete 's'; a throw is swallowed
SignatureStep(q, body) ==
    IF Truthy(body.encrypted_signature)
    THEN IF Throws(body.encrypted_signature) THEN q
         ELSE ParamDelete(ParamSet(q, SigKey(body), SigApply(body.encrypted_signature)), "s")
    ELSE q

\* (mutant) the URL's n is preferred to the body's n_param
EffectiveNUrlFirst(q, body) ==
    IF HasParam(q, "n") THEN ParamGet(q, "n") ELSE body.n_param

\* resolveUrl.ts:102-105: the body's n_param, else the URL's n as it is by now
EffectiveN(q, body) ==
    IF Truthy(body.n_param) THEN body.n_param ELSE ParamGet(q, "n")

\* resolveUrl.ts:107-117
NStep(q, body, solvers) ==
    LET nParam == EffectiveN(q, body)
    IN  IF solvers.n # "none" /\ Truthy(nParam)
        THEN IF Throws(nParam) THEN q ELSE ParamSet(q, "n", NApply(nParam))
        ELSE q

\* (mutant) a missing sig solver is let through
MissingSigSolverIgnored(body, solvers) == FALSE

\* resolveUrl.ts:65-67
MissingSigSolver(body, solvers) ==
    Truthy(body.encrypted_signature) /\ solvers.sig = "none"

handleResolveUrl(body, outcome) ==
    IF ~body.stream_url.given \/ ~Truthy(body.player_url)
    THEN ErrorResponse(400, "MISSING_REQUIRED_PARAMS")
    ELSE IF outcome.threw THEN ErrorResponse(500, "RESOLUTION_ERROR")
    ELSE IF outcome.solvers.id = 0 THEN ErrorResponse(500, "SOLVER_GENERATION_FAILED")
    ELSE IF ~body.stream_url.valid THEN ErrorResponse(500, "RESOLUTION_ERROR")
    ELSE IF MissingSigSolver(body, outcome.solvers)
    THEN ErrorResponse(500, "NO_SIGNATURE_SOLVER")
    ELSE Response(200, TRUE, "OK",
            [resolved_url |-> NStep(SignatureStep(body.stream_url.q, body), body,
                                    outcome.solvers)])

----------------------------------------------------------------------------
(* handleBatchDecrypt *)

\* (mutant) n_param is not required of an element
ElementInvalidButN(e) == ~Truthy(e.encrypted_signature) \/ ~Truthy(e.player_url)

\* batchDecrypt.ts:36; reading a field of a null element throws a TypeError
ElementInvalid(e) ==
    ~Truthy(e.encrypted_signature) \/ ~Truthy(e.n_param) \/ ~Truthy(e.player_url)

\* batchDecrypt.ts:34-56: what the validation loop ends with
RECURSIVE ValidateElements(_, _)
ValidateElements(items, i) ==
    IF i > Len(items) THEN "valid"
    ELSE IF items[i].isNull THEN "threw"
    ELSE IF ElementInvalid(items[i]) THEN "invalid"
    ELSE ValidateElements(items, i + 1)

\* batchDecrypt.ts:66-78
BatchResult(e) ==
    [encrypted_signature |-> e.encrypted_signature, n_param |-> e.n_param,
     player_url |-> e.player_url,
     decrypted_signature |-> "decrypted_" \o e.encrypted_signature,
     decrypted_n_sig |-> "decrypted_" \o e.n_param,
     success |-> TRUE]

SuccessCount(results) == Cardinality({i \in 1..Len(results) : results[i].success})

\* (mutant) an empty array is rejected like a missing one
SignaturesMissingOrEmpty(body) ==
    body.signatures.shape # "array" \/ body.signatures.items = <<>>

\* batchDecrypt.ts:12: !signatures || !Array.isArray(signatures); [] is truthy
SignaturesMissing(body) == body.signatures.shape # "array"

handleBatchDecrypt(body) ==
    IF SignaturesMissing(body) THEN ErrorResponse(400, "INVALID_REQUEST")
    ELSE LET items == body.signatures.items
             v == ValidateElements(items, 1)
         IN  IF v = "threw" THEN ErrorResponse(500, "PROCESSING_ERROR")
             ELSE IF v = "invalid" THEN ErrorResponse(400, "INVALID_REQUEST")
             ELSE LET results == [i \in 1..Len(items) |-> BatchResult(items[i])]
                  IN  Response(200, TRUE, "OK",
                         [results |-> results,
                          summary |-> [total |-> Len(items),
                                       successful |-> SuccessCount(results),
                                       failed |-> Len(items) - SuccessCount(results)]])

----------------------------------------------------------------------------
(* The black boxes: the worker pool's preprocess and the extractor *)

\* execInPool(rawPlayer) when it resolves
Preprocess(text) == "pp(" \o text \o ")"

\* What getFromPrepared can do with a preprocessed script. A complete script
\* decides it (the extractor is deterministic); a truncated one may parse to
\* nothing (an object with no solvers), yield null, or make the extractor throw.
ExtractOutcomes(pp, u) ==
    IF pp = Preprocess("full")
    THEN IF u = UrlNoSig THEN {"nosig"} ELSE {"both"}
    ELSE {"neither", "null", "throw"}

ExtractedSolvers(o, id) ==
    IF o = "both" THEN Solvers(id, "fn", "fn")
    ELSE IF o = "nosig" THEN Solvers(id, "none", "fn")
    ELSE IF o = "neither" THEN Solvers(id, "none", "none")
    ELSE NullSolvers

\* What the sts scan of handleGetSts ends with on a script: a complete one
\* carries its sts; what is at the path otherwise may be too short, match no
\* pattern, or match with a run of digits beyond 9999999999
StsOutcomes(text) ==
    IF text = "full" THEN {"found"} ELSE {"too_short", "not_found", "out_of_range"}

StsOf(u) == IF u = UrlGood THEN "19999" ELSE "20000"

----------------------------------------------------------------------------
(* An in-memory cache and the rate-limit store before anything has used them *)

CacheKeys == {"k1", "k2", "k3"}
NoTime == 0 - 1             \* entries.get(key) is undefined
NoOp == [op |-> "none", key |-> "k1", result |-> Absent, expired |-> FALSE]

ClientIps == {"10.0.0.1", "10.0.0.2"}
Paths == {"/decrypt_signature", "/get_sts"}
\* middleware.ts:98: `${clientIp}:${pathname}`
RateLimitKey(ip, path) == ip \o ":" \o path
RateLimitKeys == {RateLimitKey(ip, path) : ip \in ClientIps, path \in Paths}
NoBucket == [count |-> 0, resetTime |-> NoTime]
NoRequest == [key |-> "none", status |-> 0, handled |-> FALSE, headers |-> [none |-> TRUE]]
\* server.ts:72-75: realTimeData when the server starts
NoTraffic == [activeConnections |-> 0, totalRequests |-> 0, errorCount |-> 0]

LibIdle ==
    /\ now = 0
    /\ lru = <<>>
    /\ entries = [k \in CacheKeys |-> NoTime]
    /\ hits = 0
    /\ misses = 0
    /\ gets = 0
    /\ getsSinceClear = 0
    /\ lastOp = NoOp
    /\ recent = <<>>
    /\ store = [k \in RateLimitKeys |-> NoBucket]
    /\ reached = [k \in RateLimitKeys |-> 0]
    /\ lastReq = NoRequest
    /\ realTimeData = NoTraffic

----------------------------------------------------------------------------
(* The pipeline's requests *)

Kinds == {"decrypt", "sts"}

IdleReq == [kind |-> "none", url |-> UrlGood]

\* The body a decrypt request of the pipeline carries
PipeBody(u) == [player_url |-> u, encrypted_signature |-> "A", n_param |-> "B"]

InFlight(p) == pc[p] \notin {"idle", "done"}

\* The handler's response once getSolvers has returned or thrown
HandlerResponse(kind, u, outcome) == handleDecryptSignature(PipeBody(u), outcome)

\* handleGetSts's catch block
StsHandlerError == ErrorResponse(500, "HANDLER_ERROR")

ThrowResponse(kind, u) ==
    IF kind = "sts" THEN StsHandlerError ELSE HandlerResponse(kind, u, Threw)

Init ==
    /\ fs \in [Urls -> {"absent", "full"}]
    /\ solverCache = [u \in Urls |-> NoEntry]
    /\ preprocessedCache = [u \in Urls |-> None]
    /\ stsCache = [u \in Urls |-> None]
    /\ pc = [p \in Requests |-> "idle"]
    /\ req = [p \in Requests |-> IdleReq]
    /\ raw = [p \in Requests |-> None]
    /\ resp = [p \in Requests |-> NoResp]
    /\ got = [p \in Requests |-> NoId]
    /\ steps = [p \in Requests |-> {}]
    /\ failedAt = [p \in Requests |-> "none"]
    /\ cold = [p \in Requests |-> FALSE]
    /\ concurrentWith = [p \in Requests |-> {}]
    /\ nextId = 1
    /\ hreq = [kind |-> "none"]
    /\ hresp = NoResp
    /\ LibIdle

\* A request ends: its handler returns `r`
Finish(p, r) ==
    /\ pc' = [pc EXCEPT ![p] = "done"]
    /\ resp' = [resp EXCEPT ![p] = r]

\* A step of the request's own fails: the exception reaches the handler's catch
Fail(p, step) ==
    /\ Finish(p, ThrowResponse(req[p].kind, req[p].url))
    /\ failedAt' = [failedAt EXCEPT ![p] = step]
    /\ got' = [got EXCEPT ![p] = NoId]

\* A decrypt or get_sts request enters its handler, which calls
\* getPlayerFilePath (directly or through getSolvers) and awaits the digest.
Arrive(p) ==
    /\ pc[p] = "idle"
    /\ \A q \in 1..(p-1) : pc[q] # "idle"     \* requests are numbered as they arrive
    /\ \E kind \in Kinds, u \in Urls :
         /\ req' = [req EXCEPT ![p] = [IdleReq EXCEPT !.kind = kind, !.url = u]]
         /\ cold' = [cold EXCEPT ![p] =
                solverCache[u] = NoEntry /\ preprocessedCache[u] = None]
    /\ pc' = [pc EXCEPT ![p] = "stat"]
    /\ concurrentWith' = [concurrentWith EXCEPT ![p] = {q \in Requests : InFlight(q)}]
    /\ UNCHANGED <<fs, solverCache, preprocessedCache, stsCache, raw, resp, got,
                   steps, failedAt, nextId, handlerVars, libVars>>

\* playerCache.ts:13-20: Deno.stat finds the file (utime, return the path) or
\* does not (the fetch is issued at once)
StatFile(p) ==
    /\ pc[p] = "stat"
    /\ IF fs[req[p].url] # "absent"
       THEN /\ pc' = [pc EXCEPT ![p] = "lookup"]
            /\ UNCHANGED steps
       ELSE /\ pc' = [pc EXCEPT ![p] = "fetching"]
            /\ steps' = [steps EXCEPT ![p] = @ \cup {"fetch"}]
    /\ UNCHANGED <<fs, solverCache, preprocessedCache, stsCache, req, raw, resp, got,
                   failedAt, cold, concurrentWith, nextId, handlerVars, libVars>>

\* playerCache.ts:23-25: a non-2xx answer (or a network error)
FetchFail(p) ==
    /\ pc[p] = "fetching"
    /\ Fail(p, "fetch")
    /\ UNCHANGED <<fs, solverCache, preprocessedCache, stsCache, req, raw, steps,
                   cold, concurrentWith, nextId, handlerVars, libVars>>

\* playerCache.ts:27-28: the body arrives and Deno.writeTextFile opens the
\* final path (create, truncate) and starts writing into it
WriteBegin(p) ==
    /\ pc[p] = "fetching"
    /\ fs' = [fs EXCEPT ![req[p].url] = "partial"]
    /\ pc' = [pc EXCEPT ![p] = "writing"]
    /\ UNCHANGED <<solverCache, preprocessedCache, stsCache, req, raw, resp, got,
                   steps, failedAt, cold, concurrentWith, nextId, handlerVars, libVars>>

\* The content on disk once p's write is through: complete unless another
\* writer of the same path is still at it
AfterWrite(p) ==
    IF \E q \in Requests \ {p} : pc[q] = "writing" /\ req[q].url = req[p].url
    THEN "partial" ELSE "full"

\* playerCache.ts:28-37: the write completes and the path is returned
WriteDone(p) ==
    /\ pc[p] = "writing"
    /\ fs' = [fs EXCEPT ![req[p].url] = AfterWrite(p)]
    /\ pc' = [pc EXCEPT ![p] = "lookup"]
    /\ UNCHANGED <<solverCache, preprocessedCache, stsCache, req, raw, resp, got,
                   steps, failedAt, cold, concurrentWith, nextId, handlerVars, libVars>>

----------------------------------------------------------------------------
(* getSolvers *)

\* (mutant) the result is cached whatever it is, null included
StoreSolversAlways(cache, u, s) == [cache EXCEPT ![u] = s]

\* solver.ts:79-84: only a truthy result is cached
StoreSolvers(cache, u, s) == IF s.id # 0 THEN [cache EXCEPT ![u] = s] ELSE cache

\* (mutant) the worker's result is kept for every player
StorePreprocessedEverywhere(cache, u, pp) == [v \in Urls |-> pp]

\* (mutant) the worker's result is not kept
StorePreprocessedNever(cache, u, pp) == cache

\* solver.ts:75: the worker's result is cached before extraction is tried
StorePreprocessed(cache, u, pp) == [cache EXCEPT ![u] = pp]

\* solver.ts:78-84 and the rest of the handler, which runs in the same turn:
\* getFromPrepared(pp), cache, return
ExtractAndFinish(p, pp) ==
    LET u == req[p].url IN
    \E o \in ExtractOutcomes(pp, u) :
        /\ steps' = [steps EXCEPT ![p] = @ \cup {"extract"}]
        /\ IF o = "throw"
           THEN /\ Fail(p, "extract")
                /\ UNCHANGED <<solverCache, nextId>>
           ELSE LET s == ExtractedSolvers(o, nextId) IN
                /\ solverCache' = StoreSolvers(solverCache, u, s)
                /\ nextId' = IF s.id = 0 THEN nextId ELSE nextId + 1
                /\ got' = [got EXCEPT ![p] = s.id]
                /\ failedAt' = [failedAt EXCEPT ![p] = IF s.id = 0 THEN "extract" ELSE @]
                /\ Finish(p, HandlerResponse(req[p].kind, u, Returned(s)))

\* (mutant) every answer says it did not come from the cache
StsResponseNeverHit(sts, hit) ==
    Response(200, FALSE, "OK", [sts |-> sts, x_cache_hit |-> "false"])

\* handleGetSts (validateSignature.ts:178-199, 298-318): the body is { sts } alone;
\* x_cache_hit is the X-Cache-Hit header
StsResponse(sts, hit) == Response(200, FALSE, "OK", [sts |-> sts, x_cache_hit |-> hit])

\* solver.ts:65-72 (after getPlayerFilePath returned) and, for get_sts,
\* validateSignature.ts:170-205: the cache lookups, all in one turn
CacheLookup(p) ==
    /\ pc[p] = "lookup"
    /\ LET u == req[p].url IN
       IF req[p].kind = "sts"
       THEN /\ IF stsCache[u] # None
               THEN Finish(p, StsResponse(stsCache[u], "true"))
               ELSE /\ pc' = [pc EXCEPT ![p] = "reading"]
                    /\ UNCHANGED resp
            /\ UNCHANGED <<solverCache, preprocessedCache, got, steps, failedAt, nextId>>
       ELSE IF solverCache[u] # NoEntry
       THEN /\ got' = [got EXCEPT ![p] = solverCache[u].id]
            /\ Finish(p, HandlerResponse(req[p].kind, u, Returned(solverCache[u])))
            /\ UNCHANGED <<solverCache, preprocessedCache, steps, failedAt, nextId>>
       ELSE IF preprocessedCache[u] # None
       THEN /\ ExtractAndFinish(p, preprocessedCache[u])
            /\ UNCHANGED preprocessedCache
       ELSE /\ pc' = [pc EXCEPT ![p] = "reading"]
            /\ UNCHANGED <<solverCache, preprocessedCache, resp, got, steps, failedAt,
                           nextId>>
    /\ UNCHANGED <<fs, stsCache, req, raw, cold, concurrentWith, handlerVars, libVars>>

\* (mutant) the value is stored as soon as the script was read
StsCacheAfterAnyScan(cache, u, o) == [cache EXCEPT ![u] = StsOf(u)]

\* validateSignature.ts:288: stsCache.set is reached when no check has returned
StsCacheAfter(cache, u, o) == IF o = "found" THEN [cache EXCEPT ![u] = StsOf(u)] ELSE cache

\* validateSignature.ts:216-318: the scan of the script that was read
StsScan(p, text) ==
    \E o \in StsOutcomes(text) :
        /\ stsCache' = StsCacheAfter(stsCache, req[p].url, o)
        /\ Finish(p, IF o = "found" THEN StsResponse(StsOf(req[p].url), "false")
                     ELSE IF o = "too_short"
                     THEN ErrorResponse(500, "INVALID_PLAYER_CONTENT")
                     ELSE IF o = "not_found"
                     THEN ErrorResponse(404, "STS_NOT_FOUND")
                     ELSE ErrorResponse(400, "INVALID_STS_VALUE"))

\* Deno.readTextFile returns what is at the path now (solver.ts:73-74,
\* validateSignature.ts:203-205); getSolvers hands it to the worker pool
ReadDone(p) ==
    /\ pc[p] = "reading"
    /\ raw' = [raw EXCEPT ![p] = fs[req[p].url]]
    /\ IF req[p].kind = "sts"
       THEN /\ StsScan(p, fs[req[p].url])
            /\ UNCHANGED steps
       ELSE /\ pc' = [pc EXCEPT ![p] = "exec"]
            /\ steps' = [steps EXCEPT ![p] = @ \cup {"exec"}]
            /\ UNCHANGED <<stsCache, resp>>
    /\ UNCHANGED <<fs, solverCache, preprocessedCache, req, got, failedAt, cold,
                   concurrentWith, nextId, handlerVars, libVars>>

\* Deno.readTextFile rejects
ReadFail(p) ==
    /\ pc[p] = "reading"
    /\ Fail(p, "read")
    /\ UNCHANGED <<fs, solverCache, preprocessedCache, stsCache, req, raw, steps,
                   cold, concurrentWith, nextId, handlerVars, libVars>>

\* solver.ts:74-84: the worker's result arrives
ExecDone(p) ==
    /\ pc[p] = "exec"
    /\ preprocessedCache' = StorePreprocessed(preprocessedCache, req[p].url,
                                              Preprocess(raw[p]))
    /\ ExtractAndFinish(p, Preprocess(raw[p]))
    /\ UNCHANGED <<fs, stsCache, req, raw, cold, concurrentWith, handlerVars, libVars>>

\* execInPool rejects (timeout, retries exhausted, malformed script)
ExecFail(p) ==
    /\ pc[p] = "exec"
    /\ Fail(p, "worker")
    /\ UNCHANGED <<fs, solverCache, preprocessedCache, stsCache, req, raw, steps,
                   cold, concurrentWith, nextId, handlerVars, libVars>>

----------------------------------------------------------------------------
(* InstrumentedLRU housekeeping seen from the pipeline: an entry goes because
   its TTL ran out (cleanup timer, or the get that finds it expired) *)

ExpireSolver(u) ==
    /\ solverCache[u] # NoEntry
    /\ solverCache' = [solverCache EXCEPT ![u] = NoEntry]
    /\ UNCHANGED <<fs, preprocessedCache, stsCache, pc, req, raw, resp, got, steps,
                   failedAt, cold, concurrentWith, nextId, handlerVars, libVars>>

ExpirePreprocessed(u) ==
    /\ preprocessedCache[u] # None
    /\ preprocessedCache' = [preprocessedCache EXCEPT ![u] = None]
    /\ UNCHANGED <<fs, solverCache, stsCache, pc, req, raw, resp, got, steps,
                   failedAt, cold, concurrentWith, nextId, handlerVars, libVars>>

ExpireSts(u) ==
    /\ stsCache[u] # None
    /\ stsCache' = [stsCache EXCEPT ![u] = None]
    /\ UNCHANGED <<fs, solverCache, preprocessedCache, pc, req, raw, resp, got, steps,
                   failedAt, cold, concurrentWith, nextId, handlerVars, libVars>>

Next ==
    \/ \E p \in Requests : Arrive(p)
    \/ \E p \in Requests : StatFile(p)
    \/ \E p \in Requests : FetchFail(p)
    \/ \E p \in Requests : WriteBegin(p)
    \/ \E p \in Requests : WriteDone(p)
    \/ \E p \in Requests : CacheLookup(p)
    \/ \E p \in Requests : ReadDone(p)
    \/ \E p \in Requests : ReadFail(p)
    \/ \E p \in Requests : ExecDone(p)
    \/ \E p \in Requests : ExecFail(p)
    \/ \E u \in Urls : ExpireSolver(u)
    \/ \E u \in Urls : ExpirePreprocessed(u)
    \/ \E u \in Urls : ExpireSts(u)

Spec == Init /\ [][Next]_vars

----------------------------------------------------------------------------
(* handleClearCache *)

ClearAll(body) == body.clear_all \/ body.cache_type = "all"

\* clearCache.ts:17-83: the names pushed to clearedCaches
ClearedCaches(body) ==
    IF ClearAll(body)
    THEN <<"player_cache", "solver_cache", "preprocessed_cache", "sts_cache">>
    ELSE IF body.cache_type \in {"player", "solver", "preprocessed", "sts"}
    THEN <<body.cache_type \o "_cache">>
    ELSE <<>>

ClearCacheResponse(body) ==
    IF ~ClearAll(body) /\ body.cache_type \notin {"player", "solver", "preprocessed", "sts"}
    THEN ErrorResponse(400, "INVALID_REQUEST")
    ELSE Response(200, TRUE, "OK",
            [cleared_caches |-> ClearedCaches(body),
             cache_count |-> Len(ClearedCaches(body)),
             clear_all |-> ClearAll(body)])

\* clearCache.ts:21-55: what the handler does to a cache it names (the calls to
\* clear() are commented out)
ClearedCache(cache, name, body, empty) == cache

----------------------------------------------------------------------------
(* SpecHandlers: one request, its handler applied once *)

Tokens == {Absent, "", "A", BadToken}
CacheTypes == {Absent, "all", "player", "solver", "preprocessed", "sts", "bogus"}

\* What getSolvers can give a handler
Outcomes ==
    {Threw, Returned(NullSolvers)}
        \cup {Returned(Solvers(1, s, n)) : s \in {"none", "fn"}, n \in {"none", "fn"}}

DecryptBodies ==
    [player_url : {Absent, UrlGood}, encrypted_signature : Tokens, n_param : Tokens]

\* Query pairs a stream URL may carry
QueryPairs ==
    {<<"s", "S0">>, <<"n", "N0">>, <<"n", "N1">>, <<"n", BadToken>>,
     <<"c", "WEB">>, <<"sig", "old">>}

RECURSIVE SeqsUpTo(_, _)
SeqsUpTo(S, n) ==
    IF n = 0 THEN {<<>>}
    ELSE LET shorter == SeqsUpTo(S, n - 1)
         IN  shorter \cup {Append(q, x) : q \in shorter, x \in S}

StreamUrls ==
    {[given |-> FALSE, valid |-> FALSE, q |-> <<>>],
     [given |-> TRUE, valid |-> FALSE, q |-> <<>>]}
        \cup {[given |-> TRUE, valid |-> TRUE, q |-> q] : q \in SeqsUpTo(QueryPairs, MaxQuery)}

SignatureKeys == {Absent, "sig", "signature", "s", "n"}

ResolveBodies ==
    [stream_url : StreamUrls, player_url : {UrlGood},
     encrypted_signature : {Absent, "A", BadToken},
     signature_key : SignatureKeys, n_param : {Absent, "B", BadToken}]

Element(e, n, u) == [isNull |-> FALSE, encrypted_signature |-> e, n_param |-> n,
                     player_url |-> u]
BatchElements ==
    {Element("A", "B", UrlGood), Element("C", "D", UrlNoSig),
     Element("A", Absent, UrlGood), Element("", "B", UrlGood),
     Element("A", "B", Absent),
     [Element(Absent, Absent, Absent) EXCEPT !.isNull = TRUE]}

BatchBodies ==
    {[signatures |-> [shape |-> sh, items |-> <<>>]] : sh \in {"absent", "object"}}
        \cup {[signatures |-> [shape |-> "array", items |-> items]] :
                items \in SeqsUpTo(BatchElements, MaxBatch)}

ClearBodies == [cache_type : CacheTypes, clear_all : BOOLEAN]

HandlerRequests ==
    {[kind |-> "decrypt", body |-> b, outcome |-> o] : b \in DecryptBodies, o \in Outcomes}
        \cup {[kind |-> "resolve", body |-> b, outcome |-> o] :
                b \in ResolveBodies, o \in Outcomes}
        \cup {[kind |-> "batch", body |-> b, outcome |-> Threw] : b \in BatchBodies}
        \cup {[kind |-> "clear", body |-> b, outcome |-> Threw] : b \in ClearBodies}

IdlePipeline ==
    /\ fs = [u \in Urls |-> "full"]
    /\ pc = [p \in Requests |-> "idle"]
    /\ req = [p \in Requests |-> IdleReq]
    /\ raw = [p \in Requests |-> None]
    /\ resp = [p \in Requests |-> NoResp]
    /\ got = [p \in Requests |-> NoId]
    /\ steps = [p \in Requests |-> {}]
    /\ failedAt = [p \in Requests |-> "none"]
    /\ cold = [p \in Requests |-> FALSE]
    /\ concurrentWith = [p \in Requests |-> {}]
    /\ nextId = 3

\* The caches as earlier requests may have left them
InitHandlers ==
    /\ IdlePipeline
    /\ LibIdle
    /\ hreq \in HandlerRequests
    /\ hresp = NoResp
    /\ IF hreq.kind = "clear"
       THEN /\ solverCache \in [Urls -> {NoEntry, Solvers(1, "fn", "fn")}]
            /\ preprocessedCache \in [Urls -> {None, Preprocess("full")}]
            /\ stsCache \in [Urls -> {None, "19999"}]
       ELSE /\ solverCache = [u \in Urls |-> NoEntry]
            /\ preprocessedCache = [u \in Urls |-> None]
            /\ stsCache = [u \in Urls |-> None]

Pending(kind) == hreq.kind = kind /\ hresp = NoResp

DecryptSignature ==
    /\ Pending("decrypt")
    /\ hresp' = handleDecryptSignature(hreq.body, hreq.outcome)
    /\ UNCHANGED <<pipeVars, hreq, libVars>>

ResolveUrl ==
    /\ Pending("resolve")
    /\ hresp' = handleResolveUrl(hreq.body, hreq.outcome)
    /\ UNCHANGED <<pipeVars, hreq, libVars>>

BatchDecrypt ==
    /\ Pending("batch")
    /\ hresp' = handleBatchDecrypt(hreq.body)
    /\ UNCHANGED <<pipeVars, hreq, libVars>>

ClearCache ==
    /\ Pending("clear")
    /\ hresp' = ClearCacheResponse(hreq.body)
    /\ solverCache' = ClearedCache(solverCache, "solver_cache", hreq.body,
                                   [u \in Urls |-> NoEntry])
    /\ preprocessedCache' = ClearedCache(preprocessedCache, "preprocessed_cache",
                                         hreq.body, [u \in Urls |-> None])
    /\ stsCache' = ClearedCache(stsCache, "sts_cache", hreq.body, [u \in Urls |-> None])
    /\ UNCHANGED <<fs, pc, req, raw, resp, got, steps, failedAt, cold, concurrentWith,
                   nextId, hreq, libVars>>

NextHandlers == DecryptSignature \/ ResolveUrl \/ BatchDecrypt \/ ClearCache

SpecHandlers == InitHandlers /\ [][NextHandlers]_vars

----------------------------------------------------------------------------
(* Claims about the pipeline (Spec) *)

Concurrent(p, q) == p \in concurrentWith[q] \/ q \in concurrentWith[p]

SameUrl(p, q) == req[p].kind # "none" /\ req[q].kind # "none" /\ req[p].url = req[q].url

Done(p) == pc[p] = "done"

\* C1: concurrent getSolvers calls for one player URL that arrived while
\* neither the solver cache nor the preprocessed cache held it run execInPool
\* once and the extractor once between them, and all get the same Solvers object.
C1_SingleFlight ==
    \A p, q \in Requests :
        (/\ p # q /\ SameUrl(p, q) /\ Concurrent(p, q)
         /\ req[p].kind = "decrypt" /\ req[q].kind = "decrypt"
         /\ cold[p] /\ cold[q])
        => /\ ~("exec" \in steps[p] /\ "exec" \in steps[q])
           /\ ~("extract" \in steps[p] /\ "extract" \in steps[q])
           /\ (Done(p) /\ Done(q) /\ got[p] > 0 /\ got[q] > 0 => got[p] = got[q])

\* C2: concurrent getPlayerFilePath calls for one player URL whose file is
\* absent issue one upstream fetch between them. (A request that fetched found
\* the file absent, and files are never removed, so it was absent when the call
\* was made.)
C2_FetchCoalesced ==
    \A p, q \in Requests :
        (p # q /\ SameUrl(p, q) /\ Concurrent(p, q))
        => ~("fetch" \in steps[p] /\ "fetch" \in steps[q])

\* C3: no getSolvers or get_sts call finds the file at its final path and reads
\* a partially written script.
C3_NoPartialRead == \A p \in Requests : raw[p] # "partial"

\* C5 as claimed: whatever step of getSolvers fails, the caller of decrypt gets
\* SOLVER_GENERATION_FAILED.
C5_SolverGenerationFailed ==
    \A p \in Requests :
        Done(p) /\ req[p].kind = "decrypt" /\ failedAt[p] # "none"
        => resp[p].code = "SOLVER_GENERATION_FAILED"

StepOf(failure) ==
    IF failure = "fetch" THEN {"fetch"}
    ELSE IF failure = "worker" THEN {"exec"}
    ELSE IF failure = "extract" THEN {"extract"}
    ELSE {}

\* C5 as amended: a decrypt request one of whose getSolvers steps fails is
\* answered 500, with SOLVER_GENERATION_FAILED when the extractor returned null
\* and DECRYPTION_ERROR when the step threw; the failing step changes neither
\* the solver cache nor the player store (nor the preprocessed cache unless it
\* is the extraction that failed); the solver cache never holds a null; and a
\* decrypt request is only ever answered with an error when a step it ran
\* itself failed, so no failure is remembered and a later call runs the step.
C5_FailureNotCached ==
    [][\A p \in Requests :
        /\ (pc[p] # "done" /\ pc'[p] = "done" /\ req'[p].kind = "decrypt"
            /\ failedAt'[p] # "none")
           => /\ resp'[p] = ErrorResponse(500,
                    IF failedAt'[p] = "extract" /\ got'[p] = 0
                    THEN "SOLVER_GENERATION_FAILED" ELSE "DECRYPTION_ERROR")
              /\ solverCache' = solverCache
              /\ fs' = fs
              /\ (failedAt'[p] # "extract" => preprocessedCache' = preprocessedCache)
        /\ (pc'[p] = "done" /\ req'[p].kind = "decrypt" /\ ~resp'[p].success)
           => /\ failedAt'[p] # "none"
              /\ StepOf(failedAt'[p]) \subseteq steps'[p]
        /\ \A u \in Urls : solverCache'[u].id # 0
      ]_vars

\* C5 witness: a decrypt request failed in the worker, and a request for the
\* same URL that arrived after it had ended ran the worker again and succeeded.
C5_Witness ==
    \E p, q \in Requests :
        /\ p # q /\ SameUrl(p, q) /\ ~Concurrent(p, q)
        /\ Done(p) /\ failedAt[p] = "worker" /\ resp[p].code = "DECRYPTION_ERROR"
        /\ Done(q) /\ "exec" \in steps[q] /\ resp[q].success

----------------------------------------------------------------------------
(* Claims about the handlers (SpecHandlers) *)

Handled(kind) == hreq.kind = kind /\ hresp # NoResp
HasPair == ~hreq.outcome.threw /\ hreq.outcome.solvers.id > 0

\* C4: after clear_cache has answered success, every cache it names as cleared
\* is empty ('all' and clear_all name the solver, preprocessed and sts caches).
C4_ClearEmpties ==
    Handled("clear") /\ hresp.success
    => LET named == {hresp.body.cleared_caches[i] :
                        i \in 1..Len(hresp.body.cleared_caches)}
       IN  /\ (ClearAll(hreq.body) => {"solver_cache", "preprocessed_cache", "sts_cache"}
                                         \subseteq named)
           /\ ("solver_cache" \in named => \A u \in Urls : solverCache[u] = NoEntry)
           /\ ("preprocessed_cache" \in named => \A u \in Urls : preprocessedCache[u] = None)
           /\ ("sts_cache" \in named => \A u \in Urls : stsCache[u] = None)

\* C6: a decrypt request that has a player_url and got a Solvers pair is
\* answered success, with decrypted_signature = sig(encrypted_signature) when
\* the input is there, the sig solver is there and it returns, and '' when the
\* input is absent or empty, the solver is absent, or the solver throws; the
\* same for n_param and decrypted_n_sig. A solver exception never makes the
\* response an error.
C6_DecryptFields ==
    Handled("decrypt") /\ Truthy(hreq.body.player_url) /\ HasPair
    => LET enc == hreq.body.encrypted_signature
           n == hreq.body.n_param
           solvers == hreq.outcome.solvers
       IN  /\ hresp.status = 200
           /\ hresp.success
           /\ hresp.body.decrypted_signature =
                IF Truthy(enc) /\ solvers.sig = "fn" /\ ~Throws(enc)
                THEN SigApply(enc) ELSE ""
           /\ hresp.body.decrypted_n_sig =
                IF Truthy(n) /\ solvers.n = "fn" /\ ~Throws(n) THEN NApply(n) ELSE ""

\* C6 witness: the sig solver threw and the n solver returned; the response is
\* success with an empty decrypted_signature and decrypted_n_sig = n(A).
C6_Witness ==
    /\ Handled("decrypt") /\ HasPair
    /\ hreq.outcome.solvers.sig = "fn" /\ hreq.outcome.solvers.n = "fn"
    /\ hreq.body.encrypted_signature = BadToken /\ hreq.body.n_param = "A"
    /\ hresp.success
    /\ hresp.body.decrypted_signature = ""
    /\ hresp.body.decrypted_n_sig = NApply("A")

\* The stream URL's query as the request gave it, and the parameter the
\* request asks the signature to be put under
GivenQuery == hreq.body.stream_url.q
RequestedKey ==
    IF Truthy(hreq.body.signature_key) THEN hreq.body.signature_key ELSE "sig"

ParamNames == {"s", "n", "c", "sig", "signature"}

\* The pairs of q named k, in order
PairsNamed(q, k) == SelectSeq(q, LAMBDA pair : pair[1] = k)

Resolved == Handled("resolve") /\ hresp.success

SigSolverMissing ==
    /\ Handled("resolve")
    /\ hreq.body.stream_url.given /\ Truthy(hreq.body.player_url)
    /\ HasPair /\ hreq.outcome.solvers.sig = "none"
    /\ Truthy(hreq.body.encrypted_signature)

NoResolvedUrl == ~hresp.success /\ "resolved_url" \notin DOMAIN hresp.body

\* C8 as claimed: resolve called with encrypted_signature for a player whose
\* pair has no sig solver answers NO_SIGNATURE_SOLVER and no resolved URL.
C8_NoSignatureSolverAlways ==
    SigSolverMissing => hresp.code = "NO_SIGNATURE_SOLVER" /\ NoResolvedUrl

\* C8 as amended: resolve called with encrypted_signature for a player whose
\* pair has no sig solver answers no resolved URL and status 500, with
\* NO_SIGNATURE_SOLVER when stream_url parses as a URL and RESOLUTION_ERROR
\* when it does not (the URL is parsed before the solver is looked at).
C8_NoSignatureSolver ==
    SigSolverMissing
    => /\ hresp = ErrorResponse(500, IF hreq.body.stream_url.valid
                                     THEN "NO_SIGNATURE_SOLVER" ELSE "RESOLUTION_ERROR")
       /\ NoResolvedUrl

\* C8 witness: a parseable stream_url, a pair with only the n solver, and the
\* answer NO_SIGNATURE_SOLVER.
C8_Witness ==
    /\ SigSolverMissing
    /\ hreq.body.stream_url.valid /\ hreq.outcome.solvers.n = "fn"
    /\ hresp.code = "NO_SIGNATURE_SOLVER" /\ hresp.status = 500

\* The frame both readings of C9 share: 's' is as given unless
\* encrypted_signature was supplied, and no parameter other than
\* signature_key, 's' and 'n' changes.
ResolveFrame ==
    LET url == hresp.body.resolved_url
    IN  /\ (~Truthy(hreq.body.encrypted_signature)
            => PairsNamed(url, "s") = PairsNamed(GivenQuery, "s"))
        /\ \A k \in ParamNames \ {RequestedKey, "s", "n"} :
                PairsNamed(url, k) = PairsNamed(GivenQuery, k)

BatchOfArray == Handled("batch") /\ hreq.body.signatures.shape = "array"
BatchItems == hreq.body.signatures.items

\* An element the validation loop accepts
ElementComplete(e) ==
    /\ ~e.isNull
    /\ Truthy(e.encrypted_signature) /\ Truthy(e.n_param) /\ Truthy(e.player_url)

PairOutcomes == {o \in Outcomes : ~o.threw /\ o.solvers.id > 0}

\* The decrypt input an element of a batch amounts to
AsDecryptBody(e) ==
    [player_url |-> e.player_url, encrypted_signature |-> e.encrypted_signature,
     n_param |-> e.n_param]

\* C11: in a batch's success response, the decrypted_signature and
\* decrypted_n_sig of every element's result are what decrypt returns for the
\* same { player_url, encrypted_signature, n_param }, for some Solvers pair the
\* registry can hold for that player (whichever solvers it has).
C11_BatchIsDecrypt ==
    Handled("batch") /\ hresp.success
    => \A i \in 1..Len(BatchItems) :
         \E o \in PairOutcomes :
            LET d == handleDecryptSignature(AsDecryptBody(BatchItems[i]), o)
            IN  /\ d.success
                /\ hresp.body.results[i].decrypted_signature = d.body.decrypted_signature
                /\ hresp.body.results[i].decrypted_n_sig = d.body.decrypted_n_sig

\* C12: every success response of batch has summary.total = length(results) =
\* the number of input elements and summary.successful + summary.failed =
\* summary.total, with results echoing each element's inputs in input order; a
\* batch whose signatures value is the empty array is answered success with
\* total 0, successful 0, failed 0 and results [].
C12_BatchSummary ==
    /\ Handled("batch") /\ hresp.success
       => LET results == hresp.body.results
              summary == hresp.body.summary
          IN  /\ summary.total = Len(results)
              /\ Len(results) = Len(BatchItems)
              /\ summary.successful + summary.failed = summary.total
              /\ summary.successful = Cardinality({i \in 1..Len(results) : results[i].success})
              /\ \A i \in 1..Len(results) :
                   /\ results[i].encrypted_signature = BatchItems[i].encrypted_signature
                   /\ results[i].n_param = BatchItems[i].n_param
                   /\ results[i].player_url = BatchItems[i].player_url
    /\ BatchOfArray /\ BatchItems = <<>>
       => /\ hresp.status = 200
          /\ hresp.success
          /\ hresp.body.results = <<>>
          /\ hresp.body.summary = [total |-> 0, successful |-> 0, failed |-> 0]

\* C12 witness: a batch of two different elements answered with two results in
\* the elements' order and total 2.
C12_Witness ==
    /\ Handled("batch") /\ hresp.success
    /\ Len(BatchItems) = 2
    /\ BatchItems[1].encrypted_signature # BatchItems[2].encrypted_signature
    /\ hresp.body.summary.total = 2
    /\ hresp.body.results[2].encrypted_signature = BatchItems[2].encrypted_signature

----------------------------------------------------------------------------
(* handleGetSts: the scan of a script (SpecSts)

   A script is its length and the places where a timestamp may stand, left to
   right. A place is a name (signatureTimestamp or sts), how it is quoted,
   the separator after it (and optional blanks), then an optional minus sign
   and a run of digits (possibly none). *)

MaxPlaces == 2              \* most places in a script
MinPlayerLength == 1000     \* validateSignature.ts:217

Nines == <<9, 9, 9, 9, 9, 9, 9, 9, 9, 9>>           \* 9999999999
TenBillion == <<1, 0, 0, 0, 0, 0, 0, 0, 0, 0, 0>>   \* 10000000000

Place(name, quote, sep, minus, digits) ==
    [name |-> name, quote |-> quote, sep |-> sep, minus |-> minus, digits |-> digits]

PlaceForms ==
    {<<"sts", "none", ":">>, <<"signatureTimestamp", "double", ":">>,
     <<"sts", "none", "=">>, <<"sts", "double", ":">>,
     <<"signatureTimestamp", "double", "=">>}

PlaceValues ==
    {<<FALSE, <<0>>>>, <<FALSE, Nines>>, <<FALSE, TenBillion>>, <<FALSE, <<0, 4, 2>>>>,
     <<FALSE, <<>>>>, <<TRUE, <<1>>>>}

Places == {Place(f[1], f[2], f[3], v[1], v[2]) : f \in PlaceForms, v \in PlaceValues}

PlayerContents ==
    {[length |-> 0, places |-> <<>>]}
        \cup {[length |-> n, places |-> ps] :
                n \in {MinPlayerLength - 1, MinPlayerLength},
                ps \in SeqsUpTo(Places, MaxPlaces)}

\* validateSignature.ts:235-243: the name part of pattern k matches at place t
PatternName(k, t) ==
    CASE k = 1 -> t.quote = "none" /\ t.sep = ":"
      [] k = 2 -> t.name = "signatureTimestamp" /\ t.quote = "double" /\ t.sep = ":"
      [] k = 3 -> t.name = "signatureTimestamp" /\ t.quote = "single" /\ t.sep = ":"
      [] k = 4 -> t.name = "signatureTimestamp" /\ t.quote = "none" /\ t.sep = "="
      [] k = 5 -> t.name = "sts" /\ t.quote = "none" /\ t.sep = "="
      [] k = 6 -> t.name = "sts" /\ t.quote = "double" /\ t.sep = ":"
      [] k = 7 -> t.name = "sts" /\ t.quote = "single" /\ t.sep = ":"

\* (\d+) directly after the separator and blanks: no sign, at least one digit
PatternMatches(k, t) == PatternName(k, t) /\ ~t.minus /\ t.digits # <<>>

NumPatterns == 7

\* playerContent.match(pattern): the leftmost match, or null (0)
MatchIndex(content, k) ==
    IF \E i \in 1..Len(content.places) : PatternMatches(k, content.places[i])
    THEN CHOOSE i \in 1..Len(content.places) :
            /\ PatternMatches(k, content.places[i])
            /\ \A j \in 1..(i-1) : ~PatternMatches(k, content.places[j])
    ELSE 0

\* validateSignature.ts:245-252: the first pattern of the list that matches
\* decides; Absent stands for null
RECURSIVE ScanFrom(_, _)
ScanFrom(content, k) ==
    IF k > NumPatterns THEN Absent
    ELSE IF MatchIndex(content, k) # 0
    THEN content.places[MatchIndex(content, k)].digits
    ELSE ScanFrom(content, k + 1)

ExtractSts(content) == ScanFrom(content, 1)

\* parseInt(sts, 10) of a run of digits, as hi * 10^5 + lo
NumberBase == 100000
RECURSIVE parseInt(_)
parseInt(digits) ==
    IF digits = <<>> THEN [hi |-> 0, lo |-> 0]
    ELSE LET front == parseInt(SubSeq(digits, 1, Len(digits) - 1))
             low == front.lo * 10 + digits[Len(digits)]
         IN  [hi |-> front.hi * 10 + (low \div NumberBase), lo |-> low % NumberBase]

GreaterThan(a, b) == a.hi > b.hi \/ (a.hi = b.hi /\ a.lo > b.lo)

StsMax == [hi |-> NumberBase - 1, lo |-> NumberBase - 1]     \* 9999999999

\* (mutant) the upper bound itself is rejected
StsInvalidAtBound(stsNumber) ==
    stsNumber.hi < 0 \/ GreaterThan(stsNumber, StsMax) \/ stsNumber = StsMax

\* validateSignature.ts:272 (a run of digits never parses to NaN)
StsInvalid(stsNumber) == stsNumber.hi < 0 \/ GreaterThan(stsNumber, StsMax)

\* validateSignature.ts:216-318 on the content that was read
ScanResponse(content) ==
    IF content.length = 0 \/ content.length < MinPlayerLength
    THEN ErrorResponse(500, "INVALID_PLAYER_CONTENT")
    ELSE LET sts == ExtractSts(content)
         IN  IF sts = Absent THEN ErrorResponse(404, "STS_NOT_FOUND")
             ELSE IF StsInvalid(parseInt(sts)) THEN ErrorResponse(400, "INVALID_STS_VALUE")
             ELSE StsResponse(sts, "false")

InitSts ==
    /\ IdlePipeline
    /\ LibIdle
    /\ solverCache = [u \in Urls |-> NoEntry]
    /\ preprocessedCache = [u \in Urls |-> None]
    /\ stsCache = [u \in Urls |-> None]
    /\ hreq \in {[kind |-> "scan", content |-> c] : c \in PlayerContents}
    /\ hresp = NoResp

GetStsScan ==
    /\ Pending("scan")
    /\ hresp' = ScanResponse(hreq.content)
    /\ UNCHANGED <<pipeVars, hreq, libVars>>

NextSts == GetStsScan

SpecSts == InitSts /\ [][NextSts]_vars

----------------------------------------------------------------------------
(* Claims about the sts scan (SpecSts) *)

\* The text forms each pattern of the list is for, in the list's order
FormsOfPattern ==
    <<{<<"signatureTimestamp", "none", ":">>, <<"sts", "none", ":">>},
      {<<"signatureTimestamp", "double", ":">>},
      {<<"signatureTimestamp", "single", ":">>},
      {<<"signatureTimestamp", "none", "=">>},
      {<<"sts", "none", "=">>},
      {<<"sts", "double", ":">>},
      {<<"sts", "single", ":">>}>>

\* Pattern k captures digits at place t
Captures(k, t) ==
    /\ <<t.name, t.quote, t.sep>> \in FormsOfPattern[k]
    /\ ~t.minus
    /\ Len(t.digits) >= 1

RECURSIVE Significant(_)
Significant(digits) ==      \* the digits without leading zeros
    IF digits # <<>> /\ Head(digits) = 0 THEN Significant(Tail(digits)) ELSE digits

\* 0 <= v <= 9999999999 for the v the digits denote
InStsRange(digits) == Len(Significant(digits)) <= 10

\* C13: on a script it reads, get_sts answers 500 INVALID_PLAYER_CONTENT,
\* before any scanning, when the script is shorter than 1000 characters;
\* otherwise 404 STS_NOT_FOUND when no pattern of the list matches; otherwise
\* it takes the digits captured by the first pattern of the list that matches
\* (at that pattern's leftmost match) and answers 200 with those digits as the
\* sts string exactly when their value v has 0 <= v <= 9999999999, and 400
\* INVALID_STS_VALUE when it has not.
C13_StsScan ==
    Handled("scan")
    => LET places == hreq.content.places
           matching == {k \in 1..7 : \E i \in 1..Len(places) : Captures(k, places[i])}
       IN  IF hreq.content.length < 1000
           THEN hresp = ErrorResponse(500, "INVALID_PLAYER_CONTENT")
           ELSE IF matching = {}
           THEN hresp = ErrorResponse(404, "STS_NOT_FOUND")
           ELSE LET k == CHOOSE x \in matching : \A y \in matching : x <= y
                    i == CHOOSE x \in 1..Len(places) :
                            /\ Captures(k, places[x])
                            /\ \A y \in 1..(x-1) : ~Captures(k, places[y])
                    digits == places[i].digits
                IN  IF InStsRange(digits)
                    THEN /\ hresp.status = 200
                         /\ hresp.body.sts = digits
                    ELSE hresp = ErrorResponse(400, "INVALID_STS_VALUE")

\* C13 witness: a script of 1000 characters with "signatureTimestamp":
\* 10000000000 first and sts: 9999999999 after it; the first pattern of the
\* list matches the second place and the answer is 9999999999.
C13_Witness ==
    /\ Handled("scan")
    /\ hreq.content.length = 1000
    /\ hreq.content.places =
         <<Place("signatureTimestamp", "double", ":", FALSE, TenBillion),
           Place("sts", "none", ":", FALSE, Nines)>>
    /\ hresp.status = 200
    /\ hresp.body.sts = Nines

----------------------------------------------------------------------------
(* Claims about get_sts and its cache (Spec) *)

StsRequest(p) == req[p].kind = "sts"

\* C14: a get_sts call that succeeds by scanning stores the sts it returns
\* under the player's key and reports X-Cache-Hit: false; the entry stays as
\* it is until it expires or is evicted (or a scan stores the value anew);
\* and every get_sts call that looks the key up while the entry is there
\* answers 200 with the stored value and X-Cache-Hit: true at once, without
\* reading or scanning the script.
C14_StsCached ==
    [][/\ \A p \in Requests :
            /\ (StsRequest(p) /\ pc[p] = "lookup" /\ pc'[p] # "lookup"
                /\ stsCache[req[p].url] # None)
               => /\ pc'[p] = "done"
                  /\ resp'[p].status = 200
                  /\ resp'[p].body.sts = stsCache[req[p].url]
                  /\ resp'[p].body.x_cache_hit = "true"
                  /\ raw'[p] = None
                  /\ stsCache' = stsCache
            /\ (StsRequest(p) /\ pc[p] = "reading" /\ pc'[p] = "done"
                /\ resp'[p].status = 200)
               => /\ resp'[p].body.x_cache_hit = "false"
                  /\ stsCache'[req[p].url] = resp'[p].body.sts
       /\ \A u \in Urls :
            stsCache'[u] # stsCache[u]
            => \/ stsCache'[u] = None
               \/ \E p \in Requests :
                    /\ StsRequest(p) /\ req[p].url = u
                    /\ pc[p] = "reading" /\ pc'[p] = "done"
                    /\ resp'[p].status = 200
                    /\ resp'[p].body.sts = stsCache'[u]
      ]_vars

\* C14 witness: a get_sts call scanned the script and answered with
\* X-Cache-Hit: false; a call for the same URL that arrived after it had
\* ended got the same sts with X-Cache-Hit: true and never read the script.
C14_Witness ==
    \E p, q \in Requests :
        /\ p # q /\ SameUrl(p, q) /\ ~Concurrent(p, q)
        /\ StsRequest(p) /\ StsRequest(q) /\ Done(p) /\ Done(q)
        /\ resp[p].status = 200 /\ resp[p].body.x_cache_hit = "false"
        /\ raw[p] = "full"
        /\ resp[q].status = 200 /\ resp[q].body.x_cache_hit = "true"
        /\ resp[q].body.sts = resp[p].body.sts
        /\ raw[q] = None

----------------------------------------------------------------------------
(* InstrumentedLRU (SpecCache): one cache, its operations applied in any order
   while the clock advances. The base class LRU comes from deno.land/x/lru and
   is modelled as the classic LRU the specification describes. *)

CacheMaxSize == 2       \* maxSize of the cache
CacheTtl == 1           \* ttl, in ticks of the clock
MaxTime == 2            \* the clock stops here
MaxGets == 2            \* get calls in a run

\* The sequence without k
Without(l, k) == SelectSeq(l, LAMBDA x : x # k)
Holds(l, k) == \E i \in 1..Len(l) : l[i] = k

\* LRU.get: a key that is held becomes the most recent
LruGet(l, k) == IF Holds(l, k) THEN Append(Without(l, k), k) ELSE l

\* (mutant) nothing is evicted on overflow
LruSetUnbounded(l, k) == Append(Without(l, k), k)

\* LRU.set: the key becomes the most recent; on overflow the least recent goes
LruSet(l, k) ==
    IF Holds(l, k) THEN Append(Without(l, k), k)
    ELSE IF Len(l) >= CacheMaxSize THEN Append(Tail(l), k)
    ELSE Append(l, k)

\* LRU.remove
LruRemove(l, k) == Without(l, k)

\* (mutant) the value is read without counting as a use
SuperPeek(l, k) == l

\* instrumentedCache.ts:95: return super.get(key)
SuperGet(l, k) == LruGet(l, k)

\* (mutant) an entry lives one tick longer
ExpiredLate(k) == entries[k] # NoTime /\ now - entries[k] > CacheTtl + 1

\* (mutant) an entry is expired once it is as old as the ttl
ExpiredAtTtl(k) == entries[k] # NoTime /\ now - entries[k] >= CacheTtl

\* instrumentedCache.ts:44, 86-89, 150-153: now - entry.timestamp > this.ttl
Expired(k) == entries[k] # NoTime /\ now - entries[k] > CacheTtl

\* (mutant) clear() keeps the counters
KeptCounter(n) == n

\* instrumentedCache.ts:136-137: clear() sets hits and misses to 0
ClearedCounter(n) == 0

Bool(b) == IF b THEN "true" ELSE "false"
\* What the last operation was and returned; expired says that it found the
\* entry of its key past its ttl
Op(op, k, result, expired) == [op |-> op, key |-> k, result |-> result, expired |-> expired]

\* The ghost order of use: set and a get that returns a value are uses; plain
\* says that nothing has been removed other than by overflow
Used(k) == [recent EXCEPT !.order = Append(Without(@, k), k)]
Removed == [recent EXCEPT !.plain = FALSE]

InitCache ==
    /\ IdlePipeline
    /\ solverCache = [u \in Urls |-> NoEntry]
    /\ preprocessedCache = [u \in Urls |-> None]
    /\ stsCache = [u \in Urls |-> None]
    /\ hreq = [kind |-> "none"]
    /\ hresp = NoResp
    /\ now = 0
    /\ lru = <<>>
    /\ entries = [k \in CacheKeys |-> NoTime]
    /\ hits = 0
    /\ misses = 0
    /\ gets = 0
    /\ getsSinceClear = 0
    /\ lastOp = NoOp
    /\ recent = [order |-> <<>>, plain |-> TRUE]
    /\ store = [k \in RateLimitKeys |-> NoBucket]
    /\ reached = [k \in RateLimitKeys |-> 0]
    /\ lastReq = NoRequest
    /\ realTimeData = NoTraffic

\* instrumentedCache.ts:83-108
CacheGet(k) ==
    /\ gets < MaxGets
    /\ gets' = gets + 1
    /\ getsSinceClear' = getsSinceClear + 1
    /\ IF Expired(k)
       THEN /\ entries' = [entries EXCEPT ![k] = NoTime]
            /\ lru' = LruRemove(lru, k)
            /\ misses' = misses + 1
            /\ recent' = Removed
            /\ lastOp' = Op("get", k, Absent, TRUE)
            /\ UNCHANGED hits
       ELSE /\ lru' = SuperGet(lru, k)
            /\ IF Holds(lru, k)
               THEN /\ hits' = hits + 1
                    /\ recent' = Used(k)
                    /\ lastOp' = Op("get", k, "value", FALSE)
                    /\ UNCHANGED misses
               ELSE /\ misses' = misses + 1
                    /\ lastOp' = Op("get", k, Absent, FALSE)
                    /\ UNCHANGED <<hits, recent>>
            /\ UNCHANGED entries
    /\ UNCHANGED <<pipeVars, handlerVars, realTimeData, now, rateVars>>

\* instrumentedCache.ts:110-120
CacheSet(k) ==
    /\ entries' = [entries EXCEPT ![k] = now]
    /\ lru' = LruSet(lru, k)
    /\ recent' = Used(k)
    /\ lastOp' = Op("set", k, Absent, FALSE)
    /\ UNCHANGED <<pipeVars, handlerVars, realTimeData, now, hits, misses, gets, getsSinceClear, rateVars>>

\* instrumentedCache.ts:122-131
CacheDelete(k) ==
    /\ entries' = [entries EXCEPT ![k] = NoTime]
    /\ lru' = LruRemove(lru, k)
    /\ recent' = Removed
    /\ lastOp' = Op("delete", k, Bool(Holds(lru, k)), FALSE)
    /\ UNCHANGED <<pipeVars, handlerVars, realTimeData, now, hits, misses, gets, getsSinceClear, rateVars>>

\* instrumentedCache.ts:133-145
CacheClear ==
    /\ entries' = [k \in CacheKeys |-> NoTime]
    /\ hits' = ClearedCounter(hits)
    /\ misses' = ClearedCounter(misses)
    /\ getsSinceClear' = 0
    /\ lru' = <<>>
    /\ recent' = Removed
    /\ lastOp' = Op("clear", "k1", Absent, FALSE)
    /\ UNCHANGED <<pipeVars, handlerVars, realTimeData, now, gets, rateVars>>

\* instrumentedCache.ts:147-164
CacheHas(k) ==
    /\ IF Expired(k)
       THEN /\ entries' = [entries EXCEPT ![k] = NoTime]
            /\ lru' = LruRemove(lru, k)
            /\ recent' = Removed
            /\ lastOp' = Op("has", k, "false", TRUE)
       ELSE /\ lastOp' = Op("has", k, Bool(Holds(lru, k)), FALSE)
            /\ UNCHANGED <<entries, lru, recent>>
    /\ UNCHANGED <<pipeVars, handlerVars, realTimeData, now, hits, misses, gets, getsSinceClear, rateVars>>

\* instrumentedCache.ts:200-207
CacheTouch(k) ==
    /\ IF entries[k] # NoTime
       THEN /\ entries' = [entries EXCEPT ![k] = now]
            /\ lastOp' = Op("touch", k, "true", FALSE)
       ELSE /\ lastOp' = Op("touch", k, "false", FALSE)
            /\ UNCHANGED entries
    /\ UNCHANGED <<pipeVars, handlerVars, realTimeData, now, lru, hits, misses, gets, getsSinceClear,
                   recent, rateVars>>

\* instrumentedCache.ts:40-63, 192-197: the sweep (timer, forceCleanup) deletes
\* every expired entry; forceCleanup returns beforeSize - this.size
CacheCleanup ==
    /\ LET expiredKeys == {k \in CacheKeys : Expired(k)}
           swept == SelectSeq(lru, LAMBDA x : x \notin expiredKeys)
       IN  /\ entries' = [k \in CacheKeys |-> IF k \in expiredKeys THEN NoTime ELSE entries[k]]
           /\ lru' = swept
           /\ recent' = IF expiredKeys = {} THEN recent ELSE Removed
           /\ lastOp' = Op("cleanup", "k1", Len(lru) - Len(swept), FALSE)
    /\ UNCHANGED <<pipeVars, handlerVars, realTimeData, now, hits, misses, gets, getsSinceClear, rateVars>>

\* Date.now() moves on
Tick ==
    /\ now < MaxTime
    /\ now' = now + 1
    /\ UNCHANGED <<pipeVars, handlerVars, realTimeData, cacheVars, rateVars>>

NextCache ==
    \/ \E k \in CacheKeys : CacheGet(k)
    \/ \E k \in CacheKeys : CacheSet(k)
    \/ \E k \in CacheKeys : CacheDelete(k)
    \/ CacheClear
    \/ \E k \in CacheKeys : CacheHas(k)
    \/ \E k \in CacheKeys : CacheTouch(k)
    \/ CacheCleanup
    \/ Tick

SpecCache == InitCache /\ [][NextCache]_vars

\* InstrumentedLRU.getStats (instrumentedCache.ts:167-176)
getStats ==
    [hits |-> hits, misses |-> misses, size |-> Len(lru), maxSize |-> CacheMaxSize]

----------------------------------------------------------------------------
(* Claims about the in-memory cache *)

\* C15: after any sequence of get, set, delete, clear, has, touch and sweep
\* operations the size the cache reports is at most its maximum size.
C15_SizeBounded == getStats.size <= getStats.maxSize

\* A set of a new key has overflowed the cache: every key has been stored, the
\* cache is full and one of the stored keys is no longer held.
C15_Witness ==
    /\ lastOp.op = "set"
    /\ Len(lru) = CacheMaxSize
    /\ \A k \in CacheKeys : entries[k] # NoTime
    /\ \E k \in CacheKeys : ~Holds(lru, k)

\* C16 (as stated): hits + misses is the number of get calls made on the cache
\* so far, whatever operations came in between.
C16_CountsAllGets == hits + misses = gets

\* C16 (amended): hits + misses is the number of get calls made since the last
\* clear (or since construction), and each get adds exactly one to hits when it
\* returns a value and exactly one to misses when it returns absent.
C16_CountsGetsSinceClear ==
    /\ [](hits + misses = getsSinceClear)
    /\ [][gets' = gets + 1 =>
            /\ lastOp'.op = "get"
            /\ lastOp'.result = "value" => (hits' = hits + 1 /\ misses' = misses)
            /\ lastOp'.result = Absent => (misses' = misses + 1 /\ hits' = hits)
            /\ lastOp'.result \in {"value", Absent}]_vars

\* A get was counted, the cache was cleared, and a get after it has hit.
C16_Witness ==
    /\ gets > getsSinceClear
    /\ hits = 1
    /\ lastOp.op = "get"
    /\ lastOp.result = "value"

\* C17: a get of a key whose entry is older than the ttl returns absent and
\* removes the entry, so that the size drops by it and a has of the key that
\* follows is false; a get that returns a value found its entry within the
\* ttl; a set of a key that is held sets its insert time to now.
C17_ExpiredGet ==
    [][/\ gets' = gets + 1 =>
            LET k == lastOp'.key
                old == entries[k] # NoTime /\ now - entries[k] > CacheTtl
            IN  /\ old => /\ lastOp'.result = Absent
                          /\ entries'[k] = NoTime
                          /\ ~Holds(lru', k)
                          /\ Len(lru') = Len(Without(lru, k))
                /\ lastOp'.result = "value" => /\ entries[k] # NoTime
                                               /\ now - entries[k] <= CacheTtl
       /\ (lastOp.op = "get" /\ lastOp.expired /\ lastOp'.op = "has"
           /\ lastOp'.key = lastOp.key) => lastOp'.result = "false"
       /\ (lastOp'.op = "set" /\ now' = now /\ Holds(lru, lastOp'.key)) =>
            /\ entries'[lastOp'.key] = now
            /\ Holds(lru', lastOp'.key)]_vars

\* A get has just found its key expired and removed it while another key
\* stays in the cache.
C17_Witness ==
    /\ lastOp.op = "get"
    /\ lastOp.expired
    /\ lastOp.result = Absent
    /\ entries[lastOp.key] = NoTime
    /\ Len(lru) = 1
    /\ misses = 1

\* The last n elements of a sequence
LastN(s, n) == IF Len(s) <= n THEN s ELSE SubSeq(s, Len(s) - n + 1, Len(s))

\* C18: as long as keys leave the cache by overflow only (sets and gets, no
\* delete, clear or expiry), the cache holds exactly the CacheMaxSize keys
\* used last, in the order of their last use, a set and a get that returns a
\* value both being uses: each overflow evicts the least recently used key.
C18_MostRecentKept == recent.plain => lru = LastN(recent.order, CacheMaxSize)

\* Three keys went into a cache of two; k1 was set before k2 and got again
\* after it, so the overflow evicted k2 and not k1.
C18_Witness ==
    /\ recent.plain
    /\ recent.order = <<"k2", "k1", "k3">>
    /\ lru = <<"k1", "k3">>
    /\ entries["k1"] < entries["k2"]
    /\ hits >= 1

----------------------------------------------------------------------------
(* withRateLimit (SpecRate): requests of several clients to several paths pass
   the rate limiter while the clock advances and the store's timer sweeps. *)

WindowMs == 1           \* config.windowMs, in ticks of the clock
MaxRequests == 2        \* config.maxRequests
MaxCount == 4           \* requests counted in one bucket in a run

\* RateLimitStore.get: the entry, unless the clock is past its resetTime
LiveAt(bucket, time) == bucket # NoBucket /\ ~(time > bucket.resetTime)
Live(key) == LiveAt(store[key], now)

\* (mutant) every request starts a bucket
IncrementedFresh(bucket, time, windowMs) == [count |-> 1, resetTime |-> time + windowMs]

\* RateLimitStore.increment: the bucket after this request
IncrementedAt(bucket, time, windowMs) ==
    IF LiveAt(bucket, time)
    THEN [count |-> bucket.count + 1, resetTime |-> bucket.resetTime]
    ELSE [count |-> 1, resetTime |-> time + windowMs]
Incremented(key) == IncrementedAt(store[key], now, WindowMs)

\* (mutant) one request more is let through
ExceededLate(count) == count > MaxRequests + 1

\* middleware.ts:108: count > config.maxRequests
Exceeded(count) == count > MaxRequests

\* The 429 response's headers (Retry-After in ticks)
RateLimitHeaders(bucket) ==
    [RetryAfter |-> bucket.resetTime - now, Limit |-> MaxRequests, Remaining |-> 0,
     Reset |-> bucket.resetTime]

\* withRateLimit's returned middleware, up to the call of the handler
RateLimit(ip, path) ==
    LET key == RateLimitKey(ip, path)
        bucket == Incremented(key)
    IN  /\ bucket.count <= MaxCount
        /\ store' = [store EXCEPT ![key] = bucket]
        /\ IF Exceeded(bucket.count)
           THEN /\ lastReq' = [key |-> key, status |-> 429, handled |-> FALSE,
                               headers |-> RateLimitHeaders(bucket)]
                /\ reached' = [reached EXCEPT ![key] = IF Live(key) THEN @ ELSE 0]
           ELSE /\ lastReq' = [key |-> key, status |-> 200, handled |-> TRUE,
                               headers |-> [none |-> TRUE]]
                /\ reached' = [reached EXCEPT ![key] = IF Live(key) THEN @ + 1 ELSE 1]
        /\ UNCHANGED <<pipeVars, handlerVars, realTimeData, now, cacheVars>>

\* RateLimitStore.startCleanup: the timer deletes the expired buckets
RateCleanup ==
    /\ \E key \in RateLimitKeys : store[key] # NoBucket /\ now > store[key].resetTime
    /\ store' = [key \in RateLimitKeys |->
                    IF store[key] # NoBucket /\ now > store[key].resetTime
                    THEN NoBucket ELSE store[key]]
    /\ UNCHANGED <<pipeVars, handlerVars, realTimeData, now, cacheVars, reached, lastReq>>

NextRate ==
    \/ \E ip \in ClientIps, path \in Paths : RateLimit(ip, path)
    \/ RateCleanup
    \/ Tick

\* The store starts empty, as in InitCache
SpecRate == InitCache /\ [][NextRate]_vars

----------------------------------------------------------------------------
(* Claims about the rate limiter *)

\* C19: under every key at most MaxRequests requests of one window reach the
\* handler; a request that finds the window's bucket live counts into it, and
\* one that finds none or an expired one starts a bucket with count 1; a
\* request counted beyond MaxRequests is answered 429 with Retry-After and the
\* X-RateLimit headers and does not reach the handler; no request changes the
\* bucket of another key.
C19_RateLimited ==
    /\ [](\A key \in RateLimitKeys : reached[key] <= MaxRequests)
    /\ [][\A key \in RateLimitKeys :
            (store'[key] # store[key] /\ store'[key] # NoBucket) =>
                LET live == store[key] # NoBucket /\ now <= store[key].resetTime
                IN  /\ lastReq'.key = key
                    /\ live => store'[key] = [count |-> store[key].count + 1,
                                              resetTime |-> store[key].resetTime]
                    /\ ~live => store'[key] = [count |-> 1, resetTime |-> now + WindowMs]
                    /\ store'[key].count <= MaxRequests =>
                            /\ lastReq'.handled
                            /\ reached'[key] = store'[key].count
                    /\ store'[key].count > MaxRequests =>
                            /\ ~lastReq'.handled
                            /\ lastReq'.status = 429
                            /\ lastReq'.headers = [RetryAfter |-> store'[key].resetTime - now,
                                                   Limit |-> MaxRequests, Remaining |-> 0,
                                                   Reset |-> store'[key].resetTime]
                            /\ reached'[key] = MaxRequests
                    /\ \A other \in RateLimitKeys \ {key} :
                            /\ store'[other] = store[other]
                            /\ reached'[other] = reached[other]]_vars

\* A request has just been refused under a key whose bucket was started after
\* an earlier window, while the bucket of another key stands at one request.
C19_Witness ==
    /\ lastReq.status = 429
    /\ ~lastReq.handled
    /\ store[lastReq.key].count = MaxRequests + 1
    /\ store[lastReq.key].resetTime > WindowMs
    /\ reached[lastReq.key] = MaxRequests
    /\ \E other \in RateLimitKeys : other # lastReq.key /\ store[other].count = 1

----------------------------------------------------------------------------
(* Authentication (SpecAuth): one request to an authenticated endpoint passes
   baseHandler's token check and then withAuth, the innermost middleware, under
   every setting of the environment variables API_TOKEN and RY4N. *)

\* String.prototype.startsWith and substring(n)
startsWith(str, prefix) ==
    Len(str) >= Len(prefix) /\ SubSeq(str, 1, Len(prefix)) = prefix
substring(str, n) == SubSeq(str, n + 1, Len(str))

\* btoa on the credentials used here
btoa ==
    [c \in {"user:tok", "admin:tok", ":tok", "user:bad", "user:tok:x", "tok", "user"} |->
        CASE c = "user:tok" -> "dXNlcjp0b2s="
          [] c = "admin:tok" -> "YWRtaW46dG9r"
          [] c = ":tok" -> "OnRvaw=="
          [] c = "user:bad" -> "dXNlcjpiYWQ="
          [] c = "user:tok:x" -> "dXNlcjp0b2s6eA=="
          [] c = "tok" -> "dG9r"
          [] c = "user" -> "dXNlcg=="]

\* atob: the credentials of an encoding; invalid base64 throws (Absent)
atob(encoded) ==
    IF \E c \in DOMAIN btoa : btoa[c] = encoded
    THEN CHOOSE c \in DOMAIN btoa : btoa[c] = encoded
    ELSE Absent

\* const [_username, password] = decoded.split(':')
SplitPassword(decoded) ==
    LET colons == {i \in 1..Len(decoded) : SubSeq(decoded, i, i) = ":"}
        after(i) == {j \in colons : j > i}
        least(S) == CHOOSE i \in S : \A j \in S : i <= j
    IN  IF colons = {} THEN Absent
        ELSE LET first == least(colons)
                 stop == IF after(first) = {} THEN Len(decoded) + 1 ELSE least(after(first))
             IN  SubSeq(decoded, first + 1, stop - 1)

DefaultApiToken == "YOUR_API_TOKEN"

\* The repository holds two entry files with their own config: server.ts:25
\* has the fallback "YOUR_API_TOKEN", src/unnamed/part_000:26 has "YO_TOKEN"
EntryFiles == {"server.ts", "part_000"}
BuiltInToken(entry) == IF entry = "server.ts" THEN "YOUR_API_TOKEN" ELSE "YO_TOKEN"

\* config.apiToken: Deno.env.get("API_TOKEN") || <fallback>
ConfigApiToken(env, entry) == IF Truthy(env) THEN env ELSE BuiltInToken(entry)

Admitted == Response(200, TRUE, "<handler>", [handled |-> TRUE])

\* baseHandler's check of the Authorization header (server.ts:183-226)
baseHandlerAuth(authHeader, API_TOKEN) ==
    IF API_TOKEN = "" \/ API_TOKEN = DefaultApiToken THEN Admitted
    ELSE IF authHeader # Absent /\ (authHeader = "Bearer " \o API_TOKEN \/ authHeader = API_TOKEN)
         THEN Admitted
    ELSE ErrorResponse(401, IF Truthy(authHeader) THEN "Invalid API token"
                            ELSE "Missing API token")

\* withAuth (middleware.ts:392-484); apiToken is Deno.env.get("RY4N")
withAuth(authHeader, apiToken) ==
    IF ~Truthy(apiToken) THEN Admitted
    ELSE
    LET bearer == /\ Truthy(authHeader)
                  /\ startsWith(authHeader, "Bearer ")
                  /\ substring(authHeader, 7) = apiToken
        basic == /\ Truthy(authHeader)
                 /\ startsWith(authHeader, "Basic ")
                 /\ LET decoded == atob(substring(authHeader, 6))
                    IN  decoded # Absent /\ SplitPassword(decoded) = apiToken
        direct == Truthy(authHeader) /\ authHeader = apiToken
        isValidAuth == bearer \/ basic \/ direct
    IN  IF ~isValidAuth THEN ErrorResponse(401, "AUTH_REQUIRED")
        ELSE IF substring(authHeader, 7) # apiToken THEN ErrorResponse(401, "AUTH_INVALID")
        ELSE Admitted

\* The request passes baseHandler's check first, then the composed middleware
Authenticated(authHeader, apiTokenEnv, ry4nEnv, entry) ==
    LET first == baseHandlerAuth(authHeader, ConfigApiToken(apiTokenEnv, entry))
    IN  IF ~first.success THEN first ELSE withAuth(authHeader, ry4nEnv)

AuthTokens == {"tok", "longtoken12"}
AuthHeaders ==
    {Absent, "bad", "Bearer bad", "bearer tok", "Basic !!!"}
        \cup AuthTokens
        \cup {"Bearer " \o t : t \in AuthTokens}
        \cup {"Basic " \o btoa[c] : c \in DOMAIN btoa}

AuthRequests ==
    [kind : {"auth"}, header : AuthHeaders,
     API_TOKEN : {Absent, "", DefaultApiToken} \cup AuthTokens,
     RY4N : {Absent, ""} \cup AuthTokens, entry : EntryFiles]

InitAuth ==
    /\ IdlePipeline
    /\ LibIdle
    /\ solverCache = [u \in Urls |-> NoEntry]
    /\ preprocessedCache = [u \in Urls |-> None]
    /\ stsCache = [u \in Urls |-> None]
    /\ hreq \in AuthRequests
    /\ hresp = NoResp

Authenticate ==
    /\ Pending("auth")
    /\ hresp' = Authenticated(hreq.header, hreq.API_TOKEN, hreq.RY4N, hreq.entry)
    /\ UNCHANGED <<pipeVars, hreq, libVars>>

NextAuth == Authenticate

SpecAuth == InitAuth /\ [][NextAuth]_vars

----------------------------------------------------------------------------
(* Claims about authentication *)

\* The header carries the token t in one of the three forms
BearsToken(header, t) ==
    /\ header # Absent
    /\ \/ header = "Bearer " \o t
       \/ header = t
       \/ \E c \in DOMAIN btoa :
            /\ header = "Basic " \o btoa[c]
            /\ \E n \in 0..Len(c) : SubSeq(c, n + 1, Len(c)) = ":" \o t
                                    /\ \A i \in 1..n : SubSeq(c, i, i) # ":"

\* C20: with a non-default API token t configured, the request is admitted to
\* its handler if and only if its Authorization header is 'Bearer t',
\* 'Basic base64(user:t)' or 't'; otherwise it is answered 401.
C20_AdmittedIffToken ==
    (hreq.kind = "auth" /\ hresp # NoResp /\ Truthy(hreq.API_TOKEN)
        /\ hreq.API_TOKEN # DefaultApiToken) =>
        /\ hresp.success <=> BearsToken(hreq.header, hreq.API_TOKEN)
        /\ ~hresp.success => hresp.status = 401

\* C21: with API_TOKEN unset a request to an API endpoint that carries no
\* Authorization header is admitted, and a 401 is only ever answered when a
\* token other than the documented default has been configured.
C21_OpenWithoutToken ==
    (hreq.kind = "auth" /\ hresp # NoResp) =>
        /\ (hreq.API_TOKEN = Absent /\ hreq.header = Absent) => hresp.success
        /\ hresp.status = 401 => (Truthy(hreq.API_TOKEN) /\ hreq.API_TOKEN # DefaultApiToken)

----------------------------------------------------------------------------
(* Player URL validation (SpecValidation): one decrypt, sts or resolve request
   passes withValidation; when it is let through, its handler calls
   getPlayerFilePath with the URL that withValidation left in the body, which
   fetches that URL when the file is not in the store. *)

\* The first index at which sub occurs in str (0: nowhere)
IndexOf(str, sub) ==
    LET at == {i \in 1..(Len(str) - Len(sub) + 1) : SubSeq(str, i, i + Len(sub) - 1) = sub}
    IN  IF at = {} THEN 0 ELSE CHOOSE i \in at : \A j \in at : i <= j
includes(str, sub) == IndexOf(str, sub) # 0

\* new URL(str): protocol, hostname and pathname; a string without "://" is
\* not a URL (TypeError)
IsUrl(str) == IndexOf(str, "://") > 1
UrlProtocol(str) == SubSeq(str, 1, IndexOf(str, "://"))
UrlRest(str) == SubSeq(str, IndexOf(str, "://") + 3, Len(str))
UrlAuthority(str) ==
    LET rest == UrlRest(str)
    IN  IF includes(rest, "/") THEN SubSeq(rest, 1, IndexOf(rest, "/") - 1) ELSE rest
UrlHostname(str) ==
    LET auth == UrlAuthority(str)
        host == IF includes(auth, "@") THEN SubSeq(auth, IndexOf(auth, "@") + 1, Len(auth))
                ELSE auth
    IN  IF includes(host, ":") THEN SubSeq(host, 1, IndexOf(host, ":") - 1) ELSE host
UrlPathname(str) ==
    LET rest == UrlRest(str)
        path == IF includes(rest, "/") THEN SubSeq(rest, IndexOf(rest, "/"), Len(rest)) ELSE "/"
    IN  IF includes(path, "?") THEN SubSeq(path, 1, IndexOf(path, "?") - 1) ELSE path

ALLOWED_HOSTNAMES == {"youtube.com", "www.youtube.com", "m.youtube.com"}

\* String.prototype.trim on the blanks used here
RECURSIVE trim(_)
trim(str) ==
    IF Len(str) > 0 /\ SubSeq(str, 1, 1) = " " THEN trim(SubSeq(str, 2, Len(str)))
    ELSE IF Len(str) > 0 /\ SubSeq(str, Len(str), Len(str)) = " "
         THEN trim(SubSeq(str, 1, Len(str) - 1))
    ELSE str

\* A normalization that leaves a relative /s/player/ path as it is
NormalizeKeepsRelative(playerUrl) ==
    IF ~Truthy(playerUrl) THEN Absent
    ELSE IF startsWith(trim(playerUrl), "/s/player/") THEN trim(playerUrl)
    ELSE IF ~IsUrl(trim(playerUrl)) THEN Absent
    ELSE IF UrlProtocol(trim(playerUrl)) \notin {"http:", "https:"} THEN Absent
    ELSE IF UrlHostname(trim(playerUrl)) \notin ALLOWED_HOSTNAMES THEN Absent
    ELSE IF ~includes(UrlPathname(trim(playerUrl)), "/player/") THEN Absent
    ELSE trim(playerUrl)

\* validateAndNormalizePlayerUrl: the normalized URL, or Absent when it throws
validateAndNormalizePlayerUrl(playerUrl) ==
    IF ~Truthy(playerUrl) THEN Absent
    ELSE LET trimmedUrl == trim(playerUrl)
         IN  IF ~Truthy(trimmedUrl) THEN Absent
             ELSE IF startsWith(trimmedUrl, "/")
                  THEN IF startsWith(trimmedUrl, "/s/player/")
                       THEN "https://www.youtube.com" \o trimmedUrl
                       ELSE Absent
             ELSE IF ~IsUrl(trimmedUrl) THEN Absent
             ELSE IF UrlProtocol(trimmedUrl) \notin {"http:", "https:"} THEN Absent
             ELSE IF UrlHostname(trimmedUrl) \notin ALLOWED_HOSTNAMES THEN Absent
             ELSE IF ~includes(UrlPathname(trimmedUrl), "/player/")
                     /\ ~includes(UrlPathname(trimmedUrl), "/s/player/") THEN Absent
             ELSE trimmedUrl

\* getPlayerFilePath as the handler calls it: the URL it fetches, None when
\* the file is in the store
FetchedBy(playerUrl, inStore) == IF inStore THEN None ELSE playerUrl

\* withValidation around a handler of /decrypt_signature, /get_sts or
\* /resolve_url
withValidation(body, inStore) ==
    IF body.player_url = Absent THEN ErrorResponse(400, "Invalid request body")
    ELSE LET normalizedUrl == validateAndNormalizePlayerUrl(body.player_url)
         IN  IF normalizedUrl = Absent THEN ErrorResponse(400, "Invalid player URL")
             ELSE Response(200, TRUE, "<handler>",
                           [player_url |-> normalizedUrl,
                            fetched |-> FetchedBy(normalizedUrl, inStore)])

PlayerUrlInputs ==
    {Absent, "", "not a url", "/watch", "/s/player/abc/base.js",
     "https://www.youtube.com/s/player/abc/base.js",
     "https://youtube.com/s/player/abc/base.js",
     "https://m.youtube.com/yts/player/abc/base.js",
     "http://www.youtube.com/s/player/abc/base.js",
     "ftp://www.youtube.com/s/player/abc/base.js",
     "https://www.youtube.com:8443/s/player/abc/base.js",
     "https://www.youtube.com/watch?v=/player/",
     "https://evil.example/s/player/x/player.js",
     "https://www.youtube.com.evil.example/s/player/x/base.js",
     "https://www.youtube.com@evil.example/s/player/x/base.js"}

ValidationRequests ==
    [kind : {"player"}, endpoint : {"/decrypt_signature", "/get_sts", "/resolve_url"},
     body : [player_url : PlayerUrlInputs], inStore : BOOLEAN]

InitValidation ==
    /\ IdlePipeline
    /\ LibIdle
    /\ solverCache = [u \in Urls |-> NoEntry]
    /\ preprocessedCache = [u \in Urls |-> None]
    /\ stsCache = [u \in Urls |-> None]
    /\ hreq \in ValidationRequests
    /\ hresp = NoResp

Validate ==
    /\ Pending("player")
    /\ hresp' = withValidation(hreq.body, hreq.inStore)
    /\ UNCHANGED <<pipeVars, hreq, libVars>>

NextValidation == Validate

SpecValidation == InitValidation /\ [][NextValidation]_vars

----------------------------------------------------------------------------
(* Claims about player URL validation *)

\* The URL names an allow-listed host and a /player/ path (a relative
\* /s/player/ path stands for the canonical host)
AllowListed(u) ==
    /\ Truthy(u)
    /\ \/ startsWith(u, "/s/player/")
       \/ /\ IsUrl(u)
          /\ UrlHostname(u) \in {"youtube.com", "www.youtube.com", "m.youtube.com"}
          /\ includes(UrlPathname(u), "/player/")

\* C22: a request whose player_url is not allow-listed is answered 400 and
\* nothing is fetched for it; every fetch that is issued is an https request to
\* an allow-listed host.
C22_AllowListedHttps ==
    (hreq.kind = "player" /\ hresp # NoResp) =>
        /\ ~AllowListed(hreq.body.player_url) => hresp.status = 400
        /\ (hresp.success /\ hresp.body.fetched # None) =>
                /\ UrlProtocol(hresp.body.fetched) = "https:"
                /\ UrlHostname(hresp.body.fetched) \in {"youtube.com", "www.youtube.com",
                                                        "m.youtube.com"}

----------------------------------------------------------------------------
(* handleValidateSignature (SpecValidateSig): one validate request. The
   endpoint is not among those withValidation normalizes, so the handler sees
   player_url as it was sent. *)

\* Signatures of 10, 50, 100 and 200 letters
A10 == "AAAAAAAAAA"
A50 == A10 \o A10 \o A10 \o A10 \o A10
A100 == A50 \o A50
A200 == A100 \o A100

Chars(str) == {SubSeq(str, i, i) : i \in 1..Len(str)}

\* (mutant) the lower limit is exclusive
LengthCheckExclusive(signature) == Len(signature) > 10 /\ Len(signature) <= 200

\* signature.length >= 10 && signature.length <= 200
LengthCheck(signature) == Len(signature) >= 10 /\ Len(signature) <= 200

\* (mutant) every non-empty string matches
PatternCheckAny(signature) == signature # ""

\* signature.match(/^[A-Za-z0-9+/=_-]+$/) !== null
PatternCheck(signature) ==
    /\ signature # ""
    /\ Chars(signature) \subseteq
        Chars("ABCDEFGHIJKLMNOPQRSTUVWXYZabcdefghijklmnopqrstuvwxyz0123456789+/=_-")

\* validateSignature.ts:61-62
PlayerUrlCheck(playerUrl) ==
    \/ includes(playerUrl, "youtube.com/s/player/")
    \/ includes(playerUrl, "youtube.com/yts/jsbin/")

\* validateSignature.ts:41-67
SignatureType(signature, playerUrl) ==
    IF ~PlayerUrlCheck(playerUrl) THEN "invalid_player_url"
    ELSE IF ~(LengthCheck(signature) /\ PatternCheck(signature)) THEN "unknown"
    ELSE IF Len(signature) <= 50 THEN "short"
    ELSE IF Len(signature) <= 100 THEN "medium"
    ELSE "long"

handleValidateSignature(body) ==
    IF ~Truthy(body.encrypted_signature) \/ ~Truthy(body.player_url)
    THEN ErrorResponse(400, "INVALID_REQUEST")
    ELSE LET signature == body.encrypted_signature
             playerUrlValid == PlayerUrlCheck(body.player_url)
         IN  Response(200, TRUE, "",
                [is_valid |-> LengthCheck(signature) /\ PatternCheck(signature)
                                /\ playerUrlValid,
                 signature_type |-> SignatureType(signature, body.player_url),
                 signature_length |-> Len(signature),
                 player_url_valid |-> playerUrlValid,
                 validation_details |->
                    [length_check |-> LengthCheck(signature),
                     pattern_check |-> PatternCheck(signature),
                     player_url_check |-> playerUrlValid]])

ValidateSignatures ==
    {Absent, "", "abcXYZ019+/=_-", "AAAAAAAAA!", "AAAAA AAAAA", "AAA.AAA.AAA.AAA"}
        \cup {"AAAAAAAAA", A10, A10 \o "A", A50, A50 \o "A", A100, A100 \o "A", A200,
              A200 \o "A"}

ValidatePlayerUrls ==
    {Absent, "/s/player/abc/base.js", "/yts/jsbin/player.js",
     "https://www.youtube.com/s/player/abc/base.js",
     "https://www.youtube.com/yts/jsbin/player.js",
     "https://evil.example/s/player/abc/base.js",
     "https://www.youtube.com/watch"}

ValidateRequests ==
    [kind : {"validate"},
     body : [encrypted_signature : ValidateSignatures, player_url : ValidatePlayerUrls]]

InitValidateSig ==
    /\ IdlePipeline
    /\ LibIdle
    /\ solverCache = [u \in Urls |-> NoEntry]
    /\ preprocessedCache = [u \in Urls |-> None]
    /\ stsCache = [u \in Urls |-> None]
    /\ hreq \in ValidateRequests
    /\ hresp = NoResp

ValidateSignature ==
    /\ Pending("validate")
    /\ hresp' = handleValidateSignature(hreq.body)
    /\ UNCHANGED <<pipeVars, hreq, libVars>>

NextValidateSig == ValidateSignature

SpecValidateSig == InitValidateSig /\ [][NextValidateSig]_vars

----------------------------------------------------------------------------
(* Claims about validate *)

AllowedChars ==
    {"A", "B", "C", "D", "E", "F", "G", "H", "I", "J", "K", "L", "M", "N", "O", "P", "Q",
     "R", "S", "T", "U", "V", "W", "X", "Y", "Z", "a", "b", "c", "d", "e", "f", "g", "h",
     "i", "j", "k", "l", "m", "n", "o", "p", "q", "r", "s", "t", "u", "v", "w", "x", "y",
     "z", "0", "1", "2", "3", "4", "5", "6", "7", "8", "9", "+", "/", "=", "_", "-"}

Accepted(kind) == hreq.kind = kind /\ hresp # NoResp /\ hresp.success

LengthOk == Len(hreq.body.encrypted_signature) \in 10..200
CharsOk ==
    \A i \in 1..Len(hreq.body.encrypted_signature) :
        SubSeq(hreq.body.encrypted_signature, i, i) \in AllowedChars
PathOk ==
    \/ includes(hreq.body.player_url, "/s/player/")
    \/ includes(hreq.body.player_url, "/yts/jsbin/")
HostPathOk ==
    \/ includes(hreq.body.player_url, "youtube.com/s/player/")
    \/ includes(hreq.body.player_url, "youtube.com/yts/jsbin/")

\* C23 (as stated): is_valid is true exactly when the signature has a length
\* in [10, 200] and allowed characters only and player_url contains
\* '/s/player/' or '/yts/jsbin/'; the flags report the three checks.
C23_ValidIffChecks ==
    Accepted("validate") =>
        /\ hresp.body.is_valid <=> (LengthOk /\ CharsOk /\ PathOk)
        /\ hresp.body.player_url_valid <=> PathOk
        /\ hresp.body.validation_details =
                [length_check |-> LengthOk, pattern_check |-> CharsOk,
                 player_url_check |-> PathOk]

\* C23 (amended): the same with the player URL check being that player_url
\* contains 'youtube.com/s/player/' or 'youtube.com/yts/jsbin/'.
C23_ValidIffHostChecks ==
    Accepted("validate") =>
        /\ hresp.body.is_valid <=> (LengthOk /\ CharsOk /\ HostPathOk)
        /\ hresp.body.player_url_valid <=> HostPathOk
        /\ hresp.body.validation_details =
                [length_check |-> LengthOk, pattern_check |-> CharsOk,
                 player_url_check |-> HostPathOk]
        /\ hresp.body.signature_length = Len(hreq.body.encrypted_signature)

\* A signature of ten letters on a valid player URL is valid.
C23_Witness ==
    /\ Accepted("validate")
    /\ hresp.body.is_valid
    /\ hresp.body.signature_length = 10
    /\ hreq.body.player_url = "https://www.youtube.com/s/player/abc/base.js"

\* C24 (as stated): signature_type is 'invalid_player_url' when the player
\* URL check fails and otherwise 'short', 'medium' or 'long' by the length.
C24_FourLabels ==
    Accepted("validate") =>
        hresp.body.signature_type =
            IF ~hresp.body.player_url_valid THEN "invalid_player_url"
            ELSE IF Len(hreq.body.encrypted_signature) <= 50 THEN "short"
            ELSE IF Len(hreq.body.encrypted_signature) <= 100 THEN "medium"
            ELSE "long"

\* C24 (amended): there is a fifth label, 'unknown', for a signature that
\* fails the length or the character check on a valid player URL.
C24_FiveLabels ==
    Accepted("validate") =>
        hresp.body.signature_type =
            IF ~hresp.body.player_url_valid THEN "invalid_player_url"
            ELSE IF ~(LengthOk /\ CharsOk) THEN "unknown"
            ELSE IF Len(hreq.body.encrypted_signature) <= 50 THEN "short"
            ELSE IF Len(hreq.body.encrypted_signature) <= 100 THEN "medium"
            ELSE "long"

\* A signature with a character outside the class, on a valid player URL
C24_Witness ==
    /\ Accepted("validate")
    /\ hresp.body.player_url_valid
    /\ hresp.body.signature_type = "unknown"
    /\ LengthOk
    /\ ~CharsOk

----------------------------------------------------------------------------
(* Further claims about the handlers (SpecHandlers) *)

----------------------------------------------------------------------------
(* initializeCache (SpecStartup): the sweep of the player store that runs to
   its end before the server starts to listen. Times are days since the epoch;
   NoTime is a time that Deno.stat could not give (null). *)

FourteenDays == 14      \* playerCache.ts:47, in days
StartupDay == 20        \* Date.now() at startup
NumEntries == 2         \* entries of the store directory

StatTimes == {NoTime, 0, 5, 6, 19}
DirEntries ==
    [isFile : {TRUE}, atime : StatTimes, mtime : {NoTime, 5, 19}, birthtime : {NoTime, 5, 19}]
        \cup {[isFile |-> FALSE, atime |-> 5, mtime |-> 5, birthtime |-> 5]}

\* stat.atime?.getTime() ?? stat.mtime?.getTime() ?? stat.birthtime?.getTime()
lastAccessed(stat) ==
    IF stat.atime # NoTime THEN stat.atime
    ELSE IF stat.mtime # NoTime THEN stat.mtime
    ELSE stat.birthtime

\* (mutant) a file of exactly fourteen days is stale
StaleInclusive(t) == t # NoTime /\ t # 0 /\ StartupDay - t >= FourteenDays

\* lastAccessed && (Date.now() - lastAccessed > fourteenDays)
Stale(t) == t # NoTime /\ t # 0 /\ StartupDay - t > FourteenDays

\* What the loop does with one entry
Removes(dirEntry) == dirEntry.isFile /\ Stale(lastAccessed(dirEntry))
Counts(dirEntry) == dirEntry.isFile /\ ~Stale(lastAccessed(dirEntry))

initializeCache(dir) ==
    Response(200, TRUE, "",
             [removed |-> [i \in 1..Len(dir) |-> Removes(dir[i])],
              fileCount |-> Cardinality({i \in 1..Len(dir) : Counts(dir[i])})])

StartupRequests == [kind : {"startup"}, dir : [1..NumEntries -> DirEntries]]

InitStartup ==
    /\ IdlePipeline
    /\ LibIdle
    /\ solverCache = [u \in Urls |-> NoEntry]
    /\ preprocessedCache = [u \in Urls |-> None]
    /\ stsCache = [u \in Urls |-> None]
    /\ hreq \in StartupRequests
    /\ hresp = NoResp

InitializeCache ==
    /\ Pending("startup")
    /\ hresp' = initializeCache(hreq.dir)
    /\ UNCHANGED <<pipeVars, hreq, libVars>>

NextStartup == InitializeCache

SpecStartup == InitStartup /\ [][NextStartup]_vars

----------------------------------------------------------------------------
(* Claims about startup *)

\* The newest of the times a stat gives (NoTime when it gives none)
Newest(stat) ==
    LET known == {stat.atime, stat.mtime, stat.birthtime} \ {NoTime}
    IN  IF known = {} THEN NoTime ELSE CHOOSE t \in known : \A u \in known : u <= t

Survives(i) == hreq.dir[i].isFile /\ ~hresp.body.removed[i]

\* C26 (as stated): a file is deleted exactly when the newest of its atime,
\* mtime and birthtime is more than 14 days old; afterwards no file has a last
\* access older than 14 days and the gauge is the number of surviving files.
C26_NewestOlderThan14 ==
    Accepted("startup") =>
        /\ \A i \in 1..NumEntries :
            hresp.body.removed[i] <=>
                /\ hreq.dir[i].isFile
                /\ Newest(hreq.dir[i]) # NoTime
                /\ StartupDay - Newest(hreq.dir[i]) > 14
        /\ \A i \in 1..NumEntries :
            (Survives(i) /\ hreq.dir[i].atime # NoTime) => StartupDay - hreq.dir[i].atime <= 14
        /\ hresp.body.fileCount = Cardinality({i \in 1..NumEntries : Survives(i)})

\* C26 (amended): a file is deleted exactly when its last access - its atime,
\* or its mtime when the atime is not known, or its birthtime when neither is -
\* is known, is not the epoch and is more than 14 days old; afterwards no
\* file has a known last access after the epoch that is older than 14 days,
\* and the gauge is the number of surviving files.
C26_LastAccessOlderThan14 ==
    Accepted("startup") =>
        /\ \A i \in 1..NumEntries :
            LET stat == hreq.dir[i]
                la == IF stat.atime # NoTime THEN stat.atime
                      ELSE IF stat.mtime # NoTime THEN stat.mtime ELSE stat.birthtime
            IN  hresp.body.removed[i] <=>
                    (stat.isFile /\ la # NoTime /\ la # 0 /\ StartupDay - la > 14)
        /\ \A i \in 1..NumEntries :
            (Survives(i) /\ hreq.dir[i].atime # NoTime /\ hreq.dir[i].atime # 0)
                => StartupDay - hreq.dir[i].atime <= 14
        /\ hresp.body.fileCount = Cardinality({i \in 1..NumEntries : Survives(i)})

\* The first file was read long ago but written yesterday and is deleted; the
\* second is exactly fourteen days old and stays; the gauge is 1.
C26_Witness ==
    /\ Accepted("startup")
    /\ hreq.dir[1].isFile
    /\ hreq.dir[1].atime = 5
    /\ hreq.dir[1].mtime = 19
    /\ hresp.body.removed[1]
    /\ hreq.dir[2].isFile
    /\ hreq.dir[2].atime = 6
    /\ ~hresp.body.removed[2]
    /\ hresp.body.fileCount = 1

----------------------------------------------------------------------------
(* Further claims about the pipeline (Spec) *)

\* C27: every 200 response carries success: true (with timestamp and
\* processing_time_ms) next to its endpoint's own keys, whether it was served
\* from a cache or not. The success field of a response is the body's key.
C27_SuccessEnvelope == \A p \in Requests : resp[p].status = 200 => resp[p].success

\* C28: two decrypt requests for the same player URL and the same inputs that
\* are both answered 200 carry the same decrypted values, whether the pair came
\* from the solver cache, from the preprocessed cache or from a cold run.
C28_SameOutput ==
    \A p, q \in Requests :
        (/\ Done(p) /\ Done(q)
         /\ req[p].kind = "decrypt" /\ req[q].kind = "decrypt"
         /\ req[p].url = req[q].url
         /\ resp[p].status = 200 /\ resp[q].status = 200)
        => resp[p].body = resp[q].body

----------------------------------------------------------------------------
(* getPlayerFilePath with the upstream's answer spelled out (playerCache.ts:8-41) *)

\* The statuses the upstream answers a call's fetch with
FetchStatuses == {200, 206, 304, 404, 429, 500}

\* (mutant) anything below 400 counts as a success
ResponseOkBelow400(status) == status < 400

\* playerCache.ts:23: response.ok, the status is in 200..299
ResponseOk(status) == status >= 200 /\ status <= 299

\* playerCache.ts:11, 16, 37: the path returned (the digest of the URL)
FilePath(u) == [threw |-> FALSE, path |-> u]

\* playerCache.ts:24: new Error(`Failed to fetch player from ${playerUrl}: ${response.status}`)
FetchError(u, status) ==
    [threw |-> TRUE, name |-> "Failed to fetch player", url |-> u, status |-> status]

\* playerCache.ts:28: Deno.writeTextFile rejects and the rejection leaves the function
WriteError(u) == [threw |-> TRUE, name |-> "Deno.writeTextFile", url |-> u, status |-> 0]

PathCalls == [kind : {"path"}, url : Urls, upstream : FetchStatuses]

InitFetch ==
    /\ fs \in [Urls -> {"absent", "full"}]
    /\ pc = [p \in Requests |-> "idle"]
    /\ req = [p \in Requests |-> IdleReq]
    /\ raw = [p \in Requests |-> None]
    /\ resp = [p \in Requests |-> NoResp]
    /\ got = [p \in Requests |-> NoId]
    /\ steps = [p \in Requests |-> {}]
    /\ failedAt = [p \in Requests |-> "none"]
    /\ cold = [p \in Requests |-> FALSE]
    /\ concurrentWith = [p \in Requests |-> {}]
    /\ nextId = 1
    /\ solverCache = [u \in Urls |-> NoEntry]
    /\ preprocessedCache = [u \in Urls |-> None]
    /\ stsCache = [u \in Urls |-> None]
    /\ hreq = [kind |-> "none"]
    /\ hresp = NoResp
    /\ LibIdle

\* getPlayerFilePath(playerUrl) is called; `upstream` is what a fetch of the
\* call's would be answered with
PathCall(p) ==
    /\ pc[p] = "idle"
    /\ \A q \in 1..(p-1) : pc[q] # "idle"
    /\ \E c \in PathCalls : req' = [req EXCEPT ![p] = c]
    /\ pc' = [pc EXCEPT ![p] = "stat"]
    /\ concurrentWith' = [concurrentWith EXCEPT ![p] = {q \in Requests : InFlight(q)}]
    /\ UNCHANGED <<fs, solverCache, preprocessedCache, stsCache, raw, resp, got,
                   steps, failedAt, cold, nextId, handlerVars, libVars>>

\* playerCache.ts:13-20: Deno.stat finds the file (utime, return the path) or
\* throws NotFound (the fetch is issued)
PathStat(p) ==
    /\ pc[p] = "stat"
    /\ req[p].kind = "path"
    /\ IF fs[req[p].url] # "absent"
       THEN /\ Finish(p, FilePath(req[p].url))
            /\ UNCHANGED steps
       ELSE /\ pc' = [pc EXCEPT ![p] = "fetching"]
            /\ steps' = [steps EXCEPT ![p] = @ \cup {"fetch"}]
            /\ UNCHANGED resp
    /\ UNCHANGED <<fs, solverCache, preprocessedCache, stsCache, req, raw, got,
                   failedAt, cold, concurrentWith, nextId, handlerVars, libVars>>

\* playerCache.ts:20-28: the upstream answers; a status that is not ok is
\* thrown, otherwise the body is read and Deno.writeTextFile opens the path
PathFetched(p) ==
    /\ pc[p] = "fetching"
    /\ req[p].kind = "path"
    /\ IF ResponseOk(req[p].upstream)
       THEN /\ fs' = [fs EXCEPT ![req[p].url] = "partial"]
            /\ pc' = [pc EXCEPT ![p] = "writing"]
            /\ UNCHANGED <<resp, failedAt>>
       ELSE /\ Finish(p, FetchError(req[p].url, req[p].upstream))
            /\ failedAt' = [failedAt EXCEPT ![p] = "fetch"]
            /\ UNCHANGED fs
    /\ UNCHANGED <<solverCache, preprocessedCache, stsCache, req, raw, got, steps,
                   cold, concurrentWith, nextId, handlerVars, libVars>>

\* playerCache.ts:28-37: the write completes, the files are counted and the
\* path is returned
PathWritten(p) ==
    /\ pc[p] = "writing"
    /\ req[p].kind = "path"
    /\ fs' = [fs EXCEPT ![req[p].url] = AfterWrite(p)]
    /\ Finish(p, FilePath(req[p].url))
    /\ UNCHANGED <<solverCache, preprocessedCache, stsCache, req, raw, got, steps,
                   failedAt, cold, concurrentWith, nextId, handlerVars, libVars>>

\* playerCache.ts:28: the write rejects; what it had written stays at the path
PathWriteFailed(p) ==
    /\ pc[p] = "writing"
    /\ req[p].kind = "path"
    /\ Finish(p, WriteError(req[p].url))
    /\ failedAt' = [failedAt EXCEPT ![p] = "write"]
    /\ UNCHANGED <<fs, solverCache, preprocessedCache, stsCache, req, raw, got, steps,
                   cold, concurrentWith, nextId, handlerVars, libVars>>

NextFetch ==
    \/ \E p \in Requests : PathCall(p)
    \/ \E p \in Requests : PathStat(p)
    \/ \E p \in Requests : PathFetched(p)
    \/ \E p \in Requests : PathWritten(p)
    \/ \E p \in Requests : PathWriteFailed(p)

SpecFetch == InitFetch /\ [][NextFetch]_vars

----------------------------------------------------------------------------
(* Claims about getPlayerFilePath *)

\* The call p got an answer that is not 2xx to the fetch it issued
NotOkAnswer(p) ==
    /\ req[p].kind = "path"
    /\ pc[p] = "fetching"
    /\ req[p].upstream \notin 200..299

\* No call other than p and q has been made for the URL u
OnlyCalls(p, q, u) ==
    \A o \in Requests \ {p, q} : req[o].kind = "path" => req[o].url # u

\* q is the call that follows p, made once p was over
NextCallAfter(p, q) ==
    /\ q = p + 1
    /\ req[q].kind = "path"
    /\ req[q].url = req[p].url
    /\ p \notin concurrentWith[q]
    /\ OnlyCalls(p, q, req[p].url)

\* The step of a call whose fetch was answered with a status outside 200..299
FetchErrorStep ==
    \A p \in Requests :
        (NotOkAnswer(p) /\ pc'[p] # pc[p])
        => /\ pc'[p] = "done"
           /\ resp'[p] = FetchError(req[p].url, req[p].upstream)
           /\ fs' = fs

\* The call that follows a failed fetch for the same URL issues the fetch again
FetchesAgain ==
    \A p, q \in Requests :
        (/\ req[p].kind = "path"
         /\ failedAt[p] = "fetch"
         /\ NextCallAfter(p, q)
         /\ pc[q] \notin {"idle", "stat"})
        => "fetch" \in steps[q]

\* C29: a call whose fetch is answered with a status outside 200..299 ends
\* with the fetch error that carries that status and writes nothing to the
\* store, and the next call for the same URL issues the fetch again
C29_FetchFailure == [][FetchErrorStep]_vars /\ []FetchesAgain

C29_Witness ==
    \E p, q \in Requests :
        /\ req[p].kind = "path"
        /\ failedAt[p] = "fetch"
        /\ resp[p] = FetchError(req[p].url, 404)
        /\ NextCallAfter(p, q)
        /\ "fetch" \in steps[q]
        /\ fs[req[p].url] = "absent"

----------------------------------------------------------------------------
(* Claims about the order of getSolvers (Spec) *)

\* p is a decrypt request whose getSolvers has the file path and is at its
\* cache lookups
AtLookup(p) == req[p].kind = "decrypt" /\ pc[p] = "lookup"

\* getSolvers returns to p, in this step, the pair the solver cache holds
\* for u once the step is over
ReturnsCachedPair(p, u) ==
    /\ pc'[p] = "done"
    /\ got'[p] > 0
    /\ solverCache'[u].id = got'[p]

\* The extractor ran for p in this step and, if it gave a pair, the pair was
\* put in the solver cache and returned
ExtractedAndStored(p, u) ==
    /\ steps'[p] = steps[p] \cup {"extract"}
    /\ pc'[p] = "done"
    /\ got'[p] > 0 => solverCache'[u].id = got'[p]

\* C30: getSolvers looks at its caches only once the file path is resolved;
\* a pair in the solver cache is returned with no preprocess and no extract;
\* else a preprocessed script in the cache is extracted from with no worker
\* task; else the file is read, one worker task is run, its result is put in
\* the preprocessed cache, the extractor is run and the pair is put in the
\* solver cache and returned
C30_LookupOrder ==
    [][\A p \in Requests :
        LET u == req[p].url IN
        /\ (AtLookup(p) /\ pc'[p] # pc[p])
           => /\ fs[u] # "absent"
              /\ steps[p] \subseteq {"fetch"}
              /\ IF solverCache[u] # NoEntry
                 THEN /\ ReturnsCachedPair(p, u)
                      /\ got'[p] = solverCache[u].id
                      /\ steps'[p] = steps[p]
                      /\ solverCache' = solverCache
                      /\ preprocessedCache' = preprocessedCache
                 ELSE IF preprocessedCache[u] # None
                 THEN /\ ExtractedAndStored(p, u)
                      /\ "exec" \notin steps'[p]
                      /\ preprocessedCache' = preprocessedCache
                 ELSE /\ pc'[p] = "reading"
                      /\ steps'[p] = steps[p]
                      /\ solverCache' = solverCache
                      /\ preprocessedCache' = preprocessedCache
        /\ (req[p].kind = "decrypt" /\ pc[p] = "reading" /\ pc'[p] = "exec")
           => /\ steps'[p] = steps[p] \cup {"exec"}
              /\ raw'[p] = fs[u]
        /\ (req[p].kind = "decrypt" /\ pc[p] = "exec" /\ pc'[p] # pc[p]
            /\ failedAt'[p] # "worker")
           => /\ "extract" \notin steps[p]
              /\ preprocessedCache'[u] = Preprocess(raw[p])
              /\ ExtractedAndStored(p, u)]_vars

\* A cold request ran the worker and the extractor; after the solver entry
\* expired the next one ran the extractor alone on the cached script; both
\* got a pair, the second one's is in the solver cache
C30_Witness ==
    \E p, q \in Requests :
        /\ Done(p) /\ Done(q)
        /\ req[p].kind = "decrypt" /\ req[q].kind = "decrypt"
        /\ req[p].url = req[q].url
        /\ {"exec", "extract"} \subseteq steps[p]
        /\ steps[q] = {"extract"}
        /\ got[p] > 0 /\ got[q] > got[p]
        /\ solverCache[req[q].url].id = got[q]

----------------------------------------------------------------------------
(* Claims about what getSolvers works on, per player (Spec) *)

\* The request p ran the extractor in this step
Extracts(p) == "extract" \in steps'[p] /\ "extract" \notin steps[p]

\* The preprocessed script the extractor of p ran on in this step: the cached
\* one at the lookup, the worker's result after it
ExtractedFrom(p) ==
    IF pc[p] = "lookup" THEN preprocessedCache[req[p].url] ELSE Preprocess(raw[p])

\* C31: for every player, the worker is handed the script only once the
\* player's file is on disk and is handed what was read from it; the
\* preprocessed cache gets the worker's result for that script; the extractor
\* runs on a preprocessed script of that player; a solver cache entry is only
\* written with what the extractor gave for it; and a step of a request for
\* one player changes neither the file nor the cache entries of another
C31_PerPlayerOrder ==
    [][/\ \A p \in Requests :
            LET u == req[p].url IN
            /\ (pc[p] # "exec" /\ pc'[p] = "exec")
               => fs[u] # "absent" /\ raw'[p] = fs[u]
            /\ Extracts(p)
               => /\ ExtractedFrom(p) \in {"pp(full)", "pp(partial)"}
                  /\ pc[p] = "exec" => /\ raw[p] \in {"full", "partial"}
                                       /\ preprocessedCache'[u] = ExtractedFrom(p)
       /\ \A u \in Urls :
            /\ preprocessedCache'[u] \notin {preprocessedCache[u], None}
               => \E p \in Requests :
                    /\ req[p].url = u /\ pc[p] = "exec" /\ pc'[p] = "done"
                    /\ preprocessedCache'[u] = "pp(" \o raw[p] \o ")"
            /\ solverCache'[u] \notin {solverCache[u], NoEntry}
               => \E p \in Requests :
                    /\ req[p].url = u /\ Extracts(p)
                    /\ \E o \in ExtractOutcomes(ExtractedFrom(p), u) :
                         solverCache'[u] = ExtractedSolvers(o, got'[p])
            /\ fs'[u] # fs[u]
               => \E p \in Requests : req[p].url = u /\ pc'[p] # pc[p]]_vars

\* The request that arrived second, for another player, has run the worker
\* and the extractor and has its pair cached while the first has not yet
\* looked for its file
C31_Witness ==
    \E p, q \in Requests :
        /\ p < q
        /\ pc[p] = "stat" /\ Done(q)
        /\ req[p].url # req[q].url
        /\ {"exec", "extract"} \subseteq steps[q]
        /\ got[q] > 0
        /\ solverCache[req[q].url].id = got[q]
        /\ preprocessedCache[req[q].url] = "pp(full)"
        /\ solverCache[req[p].url] = NoEntry

----------------------------------------------------------------------------
(* Claims about the sweep of the in-memory cache (SpecCache) *)

\* The step is a sweep: cleanup() run by the timer or by forceCleanup
SweepStep == lastOp'.op = "cleanup" /\ now' = now

\* The entry of k is older than the ttl
OlderThanTtl(k) == entries[k] # NoTime /\ now - entries[k] > CacheTtl

\* C32: a sweep removes every entry older than the ttl, leaves every other
\* entry as it is (its insert time, its place in the order of use), leaves the
\* counters alone, and forceCleanup returns the number of entries the cache
\* held before and no longer holds, in whatever state of the cache it runs
C32_Sweep ==
    [][SweepStep =>
         /\ \A k \in CacheKeys :
              /\ OlderThanTtl(k) => (entries'[k] = NoTime /\ ~Holds(lru', k))
              /\ ~OlderThanTtl(k) => /\ entries'[k] = entries[k]
                                     /\ Holds(lru', k) <=> Holds(lru, k)
         /\ \A i, j \in 1..Len(lru') :
              i < j => \E a, b \in 1..Len(lru) :
                          a < b /\ lru[a] = lru'[i] /\ lru[b] = lru'[j]
         /\ lastOp'.result =
                Cardinality({k \in CacheKeys : Holds(lru, k) /\ ~Holds(lru', k)})
         /\ hits' = hits /\ misses' = misses]_vars

\* A sweep has removed one entry and kept one that was not yet older than
\* the ttl
C32_Witness ==
    /\ lastOp.op = "cleanup"
    /\ lastOp.result = 1
    /\ Len(lru) = 1
    /\ entries[lru[1]] # NoTime
    /\ now - entries[lru[1]] <= CacheTtl

----------------------------------------------------------------------------
(* Claims about the side map of the in-memory cache (SpecCache) *)

\* InstrumentedLRU.getKeys (instrumentedCache.ts:210-212): the keys of the
\* side map
getKeys == {k \in CacheKeys : entries[k] # NoTime}

\* C36: the keys of the side map are the keys the LRU holds, so that the side
\* map never has more than the maximum size of keys and getKeys lists only
\* keys the LRU holds
C36_SideMapMirrorsLru ==
    /\ getKeys = {lru[i] : i \in 1..Len(lru)}
    /\ Cardinality(getKeys) <= CacheMaxSize

----------------------------------------------------------------------------
(* The metrics of an InstrumentedLRU (SpecMetrics): the operations of
   instrumentedCache.ts as functions of the cache and of the counters it
   exports, applied to a new cache one after the other *)

MaxOps == 3             \* operations in a run

OpNames == {"get", "set", "delete", "clear", "has"}

\* A new cache; operations counts the calls of recordOperation, returnedValue
\* and returnedAbsent the get calls by what they returned
NewCache ==
    [lru |-> <<>>, entries |-> [k \in CacheKeys |-> NoTime], time |-> 0,
     hits |-> 0, misses |-> 0,
     cacheOperations |-> [o \in OpNames |-> 0], cacheHits |-> 0, cacheMisses |-> 0,
     operations |-> [o \in OpNames |-> 0], returnedValue |-> 0, returnedAbsent |-> 0]

\* metrics.ts:307-310
recordCacheOperation(c, operation) == [c EXCEPT !.cacheOperations[operation] = @ + 1]

\* instrumentedCache.ts:65-75: recordCacheOperation, then cacheOperations...inc()
recordOperation(c, operation) ==
    LET recorded == recordCacheOperation(c, operation)
    IN  [recorded EXCEPT !.cacheOperations[operation] = @ + 1,
                         !.operations[operation] = @ + 1]

\* instrumentedCache.ts:77-81: cacheHits...inc(this.hits), cacheMisses...inc(this.misses)
updateMetrics(c) ==
    [c EXCEPT !.cacheHits = @ + c.hits, !.cacheMisses = @ + c.misses]

\* instrumentedCache.ts:122-131
delete(c, key) ==
    updateMetrics(recordOperation(
        [c EXCEPT !.entries[key] = NoTime, !.lru = LruRemove(@, key)], "delete"))

\* instrumentedCache.ts:86-89, 150-153
EntryExpired(c, key) == c.entries[key] # NoTime /\ c.time - c.entries[key] > CacheTtl

\* instrumentedCache.ts:83-108
get(c, key) ==
    LET looked == IF EntryExpired(c, key) THEN delete(c, key)
                  ELSE [c EXCEPT !.lru = LruGet(@, key)]
        found == ~EntryExpired(c, key) /\ Holds(c.lru, key)
        counted == IF found
                   THEN [looked EXCEPT !.hits = @ + 1, !.cacheHits = @ + 1,
                                       !.returnedValue = @ + 1]
                   ELSE [looked EXCEPT !.misses = @ + 1, !.cacheMisses = @ + 1,
                                       !.returnedAbsent = @ + 1]
    IN  recordOperation(counted, "get")

\* instrumentedCache.ts:110-120
set(c, key) ==
    updateMetrics(recordOperation(
        [c EXCEPT !.entries[key] = c.time, !.lru = LruSet(@, key)], "set"))

\* instrumentedCache.ts:133-145
clear(c) ==
    updateMetrics(recordOperation(
        [c EXCEPT !.entries = [k \in CacheKeys |-> NoTime], !.lru = <<>>,
                  !.hits = 0, !.misses = 0], "clear"))

\* instrumentedCache.ts:147-164
has(c, key) ==
    recordOperation(IF EntryExpired(c, key) THEN delete(c, key) ELSE c, "has")

\* The calls a run is made of; "tick" lets Date.now() move on
Calls == [op : OpNames \cup {"tick"}, key : CacheKeys]

Call(c, call) ==
    IF call.op = "get" THEN get(c, call.key)
    ELSE IF call.op = "set" THEN set(c, call.key)
    ELSE IF call.op = "delete" THEN delete(c, call.key)
    ELSE IF call.op = "clear" THEN clear(c)
    ELSE IF call.op = "has" THEN has(c, call.key)
    ELSE [c EXCEPT !.time = @ + 1]

RECURSIVE RunCalls(_, _)
RunCalls(c, calls) ==
    IF calls = <<>> THEN c ELSE RunCalls(Call(c, Head(calls)), Tail(calls))

MetricsRequests ==
    {[kind |-> "metrics", calls |-> s] :
        s \in UNION {[1..n -> Calls] : n \in 1..MaxOps}}

InitMetrics ==
    /\ IdlePipeline
    /\ LibIdle
    /\ solverCache = [u \in Urls |-> NoEntry]
    /\ preprocessedCache = [u \in Urls |-> None]
    /\ stsCache = [u \in Urls |-> None]
    /\ hreq \in MetricsRequests
    /\ hresp = NoResp

\* The calls are made and the metrics are read
Measure ==
    /\ Pending("metrics")
    /\ hresp' = Response(200, TRUE, "", RunCalls(NewCache, hreq.calls))
    /\ UNCHANGED <<pipeVars, hreq, libVars>>

NextMetrics == Measure

SpecMetrics == InitMetrics /\ [][NextMetrics]_vars

----------------------------------------------------------------------------
(* Claims about the metrics of the in-memory cache *)

\* C33: after any sequence of operations the labelled operation counter of
\* each operation is the number of times the operation was carried out, and
\* the exported hit and miss counters are the numbers of get calls that
\* returned a value and that returned absent
C33_CountersExact ==
    (hreq.kind = "metrics" /\ hresp # NoResp) =>
        /\ \A o \in OpNames : hresp.body.cacheOperations[o] = hresp.body.operations[o]
        /\ hresp.body.cacheHits = hresp.body.returnedValue
        /\ hresp.body.cacheMisses = hresp.body.returnedAbsent

----------------------------------------------------------------------------
(* The fingerprint of a normalized player URL (SpecNormalize): two requests
   pass withValidation one after the other, and the handler of each one that
   is let through calls getPlayerFilePath with the URL left in its body *)

\* playerCache.ts:9-10: the hex digest of the URL (no two URLs used here
\* share one)
sha256(str) == "sha256(" \o str \o ")"

\* playerCache.ts:11: join(CACHE_DIR, `${hash}.js`), the store file, which is
\* also the key of the solver, preprocessed and sts cache entries
PlayerFilePath(playerUrl) == "player_cache/" \o sha256(playerUrl) \o ".js"

\* validation.ts:58-71 and the handler's getPlayerFilePath(player_url)
Fingerprinted(player_url) ==
    LET normalizedUrl == validateAndNormalizePlayerUrl(player_url)
    IN  IF normalizedUrl = Absent
        THEN [status |-> 400, player_url |-> Absent, hash |-> Absent, filePath |-> Absent]
        ELSE [status |-> 200, player_url |-> normalizedUrl,
              hash |-> sha256(normalizedUrl), filePath |-> PlayerFilePath(normalizedUrl)]

NormalizeInputs ==
    PlayerUrlInputs \cup
        {" ", " /s/player/abc/base.js ", "https://www.youtube.com/s/player/abc/base.js ",
         " /watch", "/s/player/xyz/base.js", "https://www.youtube.com/s/player/xyz/base.js"}

NormalizeRequests == [kind : {"normalize"}, first : NormalizeInputs, second : NormalizeInputs]

InitNormalize ==
    /\ IdlePipeline
    /\ LibIdle
    /\ solverCache = [u \in Urls |-> NoEntry]
    /\ preprocessedCache = [u \in Urls |-> None]
    /\ stsCache = [u \in Urls |-> None]
    /\ hreq \in NormalizeRequests
    /\ hresp = NoResp

Normalize ==
    /\ Pending("normalize")
    /\ hresp' = Response(200, TRUE, "",
                         [first |-> Fingerprinted(hreq.first),
                          second |-> Fingerprinted(hreq.second)])
    /\ UNCHANGED <<pipeVars, hreq, libVars>>

NextNormalize == Normalize

SpecNormalize == InitNormalize /\ [][NextNormalize]_vars

----------------------------------------------------------------------------
(* Claims about the normalization of player_url *)

\* The second URL is the first one, a relative /s/player/ path, on the
\* canonical host
ExpansionOfFirst ==
    /\ Truthy(hreq.first)
    /\ Len(hreq.first) > Len("/s/player/")
    /\ SubSeq(hreq.first, 1, Len("/s/player/")) = "/s/player/"
    /\ hreq.second = "https://www.youtube.com" \o hreq.first

\* C34: a relative path beginning with /s/player/ and its expansion on
\* https://www.youtube.com are both let through and get the same normalized
\* URL, digest and store file (the key of the cache entries); a URL that is
\* the normalized form of another one is let through and is its own
\* normalized form
C34_NormalizedFingerprint ==
    Handled("normalize") =>
        /\ ExpansionOfFirst =>
              /\ hresp.body.first.status = 200
              /\ hresp.body.second = hresp.body.first
              /\ hresp.body.first.player_url = hreq.second
        /\ (hresp.body.first.status = 200 /\ hreq.second = hresp.body.first.player_url) =>
              /\ hresp.body.second.status = 200
              /\ hresp.body.second.player_url = hreq.second
              /\ hresp.body.second.filePath = hresp.body.first.filePath

C34_Witness ==
    /\ Handled("normalize")
    /\ ExpansionOfFirst
    /\ hreq.first # hreq.second
    /\ hresp.body.first.filePath = hresp.body.second.filePath
    /\ hresp.body.first.filePath # Absent

----------------------------------------------------------------------------
(* The requests withRateLimit admits over time (SpecWindow): a run of requests
   of two clients and of clock steps passes the rate limiter, and the times
   at which requests reached the handler are kept per key *)

MaxEvents == 7          \* requests and clock steps in a run

\* config.windowMs in the clock steps of a run (two to a tick)
WindowSteps == 2 * WindowMs

WindowKeys == {RateLimitKey(ip, "/get_sts") : ip \in ClientIps}

\* An empty store at time 0; admitted: per key, the time of each request that
\* reached the handler and the resetTime of the bucket it was counted in
NewLimiter ==
    [store |-> [key \in WindowKeys |-> NoBucket], time |-> 0,
     admitted |-> [key \in WindowKeys |-> <<>>],
     refused |-> [key \in WindowKeys |-> 0]]

\* middleware.ts:99-157: one request under the key
Limited(l, key) ==
    LET bucket == IncrementedAt(l.store[key], l.time, WindowSteps)
        counted == [l EXCEPT !.store[key] = bucket]
    IN  IF Exceeded(bucket.count)
        THEN [counted EXCEPT !.refused[key] = @ + 1]
        ELSE [counted EXCEPT !.admitted[key] =
                    Append(@, [at |-> l.time, resetTime |-> bucket.resetTime])]

\* middleware.ts:27-36: the timer's sweep at the new time, after the clock step
Swept(l) ==
    [l EXCEPT !.store = [key \in WindowKeys |->
                            IF l.store[key] # NoBucket /\ l.time > l.store[key].resetTime
                            THEN NoBucket ELSE l.store[key]]]

WindowEvents == WindowKeys \cup {"step", "sweep"}

LimiterEvent(l, event) ==
    IF event = "step" THEN [l EXCEPT !.time = @ + 1]
    ELSE IF event = "sweep" THEN Swept(l)
    ELSE Limited(l, event)

RECURSIVE RunLimiter(_, _)
RunLimiter(l, events) ==
    IF events = <<>> THEN l ELSE RunLimiter(LimiterEvent(l, Head(events)), Tail(events))

WindowRequests ==
    {[kind |-> "window", events |-> s] :
        s \in UNION {[1..n -> WindowEvents] : n \in 1..MaxEvents}}

InitWindow ==
    /\ IdlePipeline
    /\ LibIdle
    /\ solverCache = [u \in Urls |-> NoEntry]
    /\ preprocessedCache = [u \in Urls |-> None]
    /\ stsCache = [u \in Urls |-> None]
    /\ hreq \in WindowRequests
    /\ hresp = NoResp

\* The run is made and what was admitted is read
RunWindow ==
    /\ Pending("window")
    /\ hresp' = Response(200, TRUE, "", RunLimiter(NewLimiter, hreq.events))
    /\ UNCHANGED <<pipeVars, hreq, libVars>>

NextWindow == RunWindow

SpecWindow == InitWindow /\ [][NextWindow]_vars

----------------------------------------------------------------------------
(* Claims about the requests admitted in an interval *)

\* The requests under the key admitted at a time in [start, start + windowMs)
AdmittedIn(key, start) ==
    {i \in 1..Len(hresp.body.admitted[key]) :
        /\ hresp.body.admitted[key][i].at >= start
        /\ hresp.body.admitted[key][i].at < start + WindowSteps}

\* The requests under the key counted in the bucket that ends at resetTime
AdmittedInBucket(key, resetTime) ==
    {i \in 1..Len(hresp.body.admitted[key]) :
        hresp.body.admitted[key][i].resetTime = resetTime}

\* C35 as stated: under every key, every interval of length windowMs,
\* wherever it starts, has at most maxRequests admitted requests
C35_AnyInterval ==
    Handled("window") =>
        \A key \in WindowKeys : \A start \in 0..hresp.body.time :
            Cardinality(AdmittedIn(key, start)) <= MaxRequests

\* C35: under every key at most maxRequests requests are admitted in the
\* window of one bucket (from the request that starts it through its
\* resetTime), and every interval of length windowMs, wherever it starts, has
\* at most 2 * maxRequests - 1 admitted requests
C35_BucketWindow ==
    Handled("window") =>
        \A key \in WindowKeys :
            /\ \A resetTime \in 0..(hresp.body.time + WindowSteps) :
                    Cardinality(AdmittedInBucket(key, resetTime)) <= MaxRequests
            /\ \A start \in 0..hresp.body.time :
                    Cardinality(AdmittedIn(key, start)) <= 2 * MaxRequests - 1

\* An interval that starts inside one bucket's window and ends inside the
\* next one's has 2 * maxRequests - 1 admitted requests, and one was refused
C35_Witness ==
    /\ Handled("window")
    /\ \E key \in WindowKeys : \E start \in 0..hresp.body.time :
            /\ Cardinality(AdmittedIn(key, start)) = 2 * MaxRequests - 1
            /\ Cardinality({hresp.body.admitted[key][i].resetTime : i \in AdmittedIn(key, start)}) = 2

----------------------------------------------------------------------------
(* Claims about get_sts calls that end in an error (Spec) *)

\* A get_sts call ends with an error in this step
StsErrorStep(p) ==
    /\ StsRequest(p)
    /\ pc[p] # "done"
    /\ pc'[p] = "done"
    /\ resp'[p].status # 200

\* The step of a get_sts call that ends in an error leaves every sts entry
\* as it was
ErrorLeavesStsCache == \A p \in Requests : StsErrorStep(p) => stsCache' = stsCache

\* A get_sts call that finds no entry at its lookup goes on to read the script
MissReads ==
    \A q \in Requests :
        (StsRequest(q) /\ pc[q] = "lookup" /\ pc'[q] # "lookup"
         /\ stsCache[req[q].url] = None)
        => pc'[q] = "reading" /\ resp'[q] = NoResp

\* The call q was answered from the sts cache
FromStsCache(q) ==
    /\ Done(q)
    /\ resp[q].status = 200
    /\ resp[q].body.x_cache_hit = "true"

\* Some call other than p stored the sts of p's URL by scanning
StoredByAnother(p) ==
    \E r \in Requests \ {p} :
        /\ StsRequest(r) /\ SameUrl(p, r) /\ Done(r)
        /\ resp[r].status = 200
        /\ resp[r].body.x_cache_hit = "false"

\* After a get_sts call has ended in an error, a call for the same URL is
\* answered from the cache only if some other call has scanned and stored
LaterCallScans ==
    \A p, q \in Requests :
        (p # q /\ StsRequest(p) /\ StsRequest(q) /\ SameUrl(p, q)
         /\ Done(p) /\ resp[p].status # 200 /\ FromStsCache(q))
        => StoredByAnother(p)

\* C37: a get_sts call that ends in an error (script too short, no pattern
\* match, value out of range, fetch or read failure) inserts nothing into the
\* sts cache and changes no entry, so a later call for the same URL finds no
\* entry of that call's making and scans the script again
C37_ErrorNotCached ==
    /\ [][ErrorLeavesStsCache /\ MissReads]_vars
    /\ []LaterCallScans

\* C37 witness: a get_sts call has ended in an error on the script it read,
\* and the entry of its URL is the value that another call's scan of the
\* complete script stored
C37_Witness ==
    \E p, q \in Requests :
        /\ p # q /\ SameUrl(p, q) /\ StsRequest(p) /\ StsRequest(q)
        /\ Done(p) /\ resp[p].status # 200 /\ raw[p] # None
        /\ Done(q) /\ resp[q].status = 200 /\ raw[q] = "full"
        /\ stsCache[req[q].url] = resp[q].body.sts

\* A get_sts call failed before the scan, and a call for the same URL that
\* arrived after it had ended scanned the script
C37_LaterWitness ==
    \E p, q \in Requests :
        /\ p # q /\ SameUrl(p, q) /\ ~Concurrent(p, q)
        /\ StsRequest(p) /\ StsRequest(q)
        /\ Done(p) /\ resp[p].status # 200
        /\ Done(q) /\ raw[q] # None
        /\ q \notin concurrentWith[p] /\ p < q

----------------------------------------------------------------------------
(* baseHandler's bookkeeping (SpecServer): requests enter baseHandler, wait
   where it awaits (an info handler, the body, the composed handler) while
   other requests run, and leave it by one of its returns *)

\* (mutant) a request is counted as a request or as an error
updateRealTimeDataErrorsApart(d, isError) ==
    [d EXCEPT !.totalRequests = IF isError THEN @ ELSE @ + 1,
              !.errorCount = IF isError THEN @ + 1 ELSE @]

\* server.ts:98-113: totalRequests++, and errorCount++ when isError
updateRealTimeData(d, isError) ==
    [d EXCEPT !.totalRequests = @ + 1,
              !.errorCount = IF isError THEN @ + 1 ELSE @]

\* server.ts:128: realTimeData.activeConnections++
Connected(d) == [d EXCEPT !.activeConnections = @ + 1]

\* realTimeData.activeConnections--
Disconnected(d) == [d EXCEPT !.activeConnections = @ - 1]

ServerPaths == {"/", "/info", "/health", "/get_sts", "/nope"}
Methods == {"GET", "POST"}

\* server.ts:141, 169-181: handlers that return without awaiting
SyncInfo(path, method) == (method = "GET" /\ path = "/") \/ path = "/info"
\* server.ts:148-167: handlers that are awaited
AwaitedInfo(path) == path = "/health"
\* server.ts:183-186, 227-245
ApiPath(path) == path = "/get_sts"

HttpRequest(path, method) == [kind |-> "http", url |-> path, method |-> method]

\* A return of baseHandler: updateRealTimeData, activeConnections--, return
Leave(p, d, status, isError) ==
    /\ realTimeData' = Disconnected(updateRealTimeData(d, isError))
    /\ Finish(p, Response(status, status < 400, "", [status |-> status]))

\* server.ts:117-346 up to the first await or return. `authorized`: no token
\* is configured or the header carries it; `json`: the Content-Type includes
\* application/json; `threw`: the info handler throws
Enter(p) ==
    /\ pc[p] = "idle"
    /\ \A q \in 1..(p-1) : pc[q] # "idle"
    /\ \E path \in ServerPaths, method \in Methods,
          authorized \in BOOLEAN, json \in BOOLEAN, threw \in BOOLEAN :
         /\ req' = [req EXCEPT ![p] = HttpRequest(path, method)]
         /\ LET entered == Connected(realTimeData) IN
            IF SyncInfo(path, method)
            THEN IF threw THEN Leave(p, entered, 500, TRUE)
                 ELSE Leave(p, entered, 200, FALSE)
            ELSE IF AwaitedInfo(path)
            THEN /\ realTimeData' = entered
                 /\ pc' = [pc EXCEPT ![p] = "info"]
                 /\ UNCHANGED resp
            ELSE IF ApiPath(path) /\ ~authorized THEN Leave(p, entered, 401, TRUE)
            ELSE IF ~ApiPath(path) THEN Leave(p, entered, 404, TRUE)
            ELSE IF method = "POST" /\ ~json THEN Leave(p, entered, 415, TRUE)
            ELSE /\ realTimeData' = entered
                 /\ pc' = [pc EXCEPT ![p] = IF method = "POST" THEN "parsing"
                                            ELSE "handling"]
                 /\ UNCHANGED resp
    /\ UNCHANGED <<fs, solverCache, preprocessedCache, stsCache, raw, got, steps,
                   failedAt, cold, concurrentWith, nextId, handlerVars, now,
                   cacheVars, rateVars>>

\* server.ts:148-167: the awaited info handler returns its response (whatever
\* its status, isError is left false) or throws into the catch block
InfoDone(p) ==
    /\ pc[p] = "info"
    /\ req[p].kind = "http"
    /\ \E status \in {200, 503}, threw \in BOOLEAN :
         IF threw THEN Leave(p, realTimeData, 500, TRUE)
         ELSE Leave(p, realTimeData, status, FALSE)
    /\ UNCHANGED <<fs, solverCache, preprocessedCache, stsCache, req, raw, got, steps,
                   failedAt, cold, concurrentWith, nextId, handlerVars, now,
                   cacheVars, rateVars>>

\* server.ts:294, 322-346: req.json() resolves and the composed handler is called
BodyParsed(p) ==
    /\ pc[p] = "parsing"
    /\ req[p].kind = "http"
    /\ pc' = [pc EXCEPT ![p] = "handling"]
    /\ UNCHANGED <<fs, solverCache, preprocessedCache, stsCache, req, raw, resp, got,
                   steps, failedAt, cold, concurrentWith, nextId, handlerVars, libVars>>

\* server.ts:295-320: req.json() rejects
BodyInvalid(p) ==
    /\ pc[p] = "parsing"
    /\ req[p].kind = "http"
    /\ Leave(p, realTimeData, 400, TRUE)
    /\ UNCHANGED <<fs, solverCache, preprocessedCache, stsCache, req, raw, got, steps,
                   failedAt, cold, concurrentWith, nextId, handlerVars, now,
                   cacheVars, rateVars>>

HandlerStatuses == {200, 400, 429, 500}

\* server.ts:346-349: the composed handler's response
HandlerResponded(p) ==
    /\ pc[p] = "handling"
    /\ req[p].kind = "http"
    /\ \E status \in HandlerStatuses : Leave(p, realTimeData, status, status >= 400)
    /\ UNCHANGED <<fs, solverCache, preprocessedCache, stsCache, req, raw, got, steps,
                   failedAt, cold, concurrentWith, nextId, handlerVars, now,
                   cacheVars, rateVars>>

\* server.ts:351-382: the composed handler rejects; the catch block answers 500
HandlerThrew(p) ==
    /\ pc[p] = "handling"
    /\ req[p].kind = "http"
    /\ Leave(p, realTimeData, 500, TRUE)
    /\ failedAt' = [failedAt EXCEPT ![p] = "handler"]
    /\ UNCHANGED <<fs, solverCache, preprocessedCache, stsCache, req, raw, got, steps,
                   cold, concurrentWith, nextId, handlerVars, now, cacheVars, rateVars>>

NextServer ==
    \/ \E p \in Requests : Enter(p)
    \/ \E p \in Requests : InfoDone(p)
    \/ \E p \in Requests : BodyParsed(p)
    \/ \E p \in Requests : BodyInvalid(p)
    \/ \E p \in Requests : HandlerResponded(p)
    \/ \E p \in Requests : HandlerThrew(p)

\* The server has started and no request has arrived
InitServer ==
    /\ IdlePipeline
    /\ LibIdle
    /\ solverCache = [u \in Urls |-> NoEntry]
    /\ preprocessedCache = [u \in Urls |-> None]
    /\ stsCache = [u \in Urls |-> None]
    /\ hreq = [kind |-> "none"]
    /\ hresp = NoResp

SpecServer == InitServer /\ [][NextServer]_vars

----------------------------------------------------------------------------
(* Claims about baseHandler's counters *)

\* The request is inside baseHandler, at one of its awaits
InsideBaseHandler(p) == pc[p] \in {"info", "parsing", "handling"}

\* C38: activeConnections is the number of requests inside baseHandler, so it
\* is never negative and is 0 when no request is in flight; totalRequests is
\* the number of requests that have left baseHandler, whatever the return
\* they left by; and errorCount <= totalRequests
C38_ConnectionsCounted ==
    /\ realTimeData.activeConnections = Cardinality({p \in Requests : InsideBaseHandler(p)})
    /\ realTimeData.activeConnections >= 0
    /\ (\A p \in Requests : ~InsideBaseHandler(p)) => realTimeData.activeConnections = 0
    /\ realTimeData.totalRequests = Cardinality({p \in Requests : Done(p)})
    /\ realTimeData.errorCount <= realTimeData.totalRequests
    /\ realTimeData.errorCount >= 0

\* C38 witness: one request was answered 401 and another one that came in
\* with it still waits for its handler
C38_Witness ==
    \E p, q \in Requests :
        /\ Done(p) /\ resp[p].status = 401
        /\ pc[q] = "handling"
        /\ realTimeData = [activeConnections |-> 1, totalRequests |-> 1, errorCount |-> 1]

====
